---- MODULE Spec2Model ----
(***************************************************************************)
(* Hytale AI model generator: the texture-atlas packer (textureMapper.ts), *)
(* the bone tree <-> node tree converters (modelExporter / modelImporter)  *)
(* and the App component that drives them.                                 *)
(*                                                                         *)
(* Numbers.  Model coordinates and sizes are JavaScript numbers.  They are *)
(* kept here as integers counting quarters of a model unit ("ticks"), so   *)
(* 8 units is 32 and 0.5 units is 2.  Cube sizes are whole numbers of      *)
(* half units (an even number of ticks), which makes size/2 exact.         *)
(* Texture coordinates (uv, texture_size, footprints) are pixels.          *)
(***************************************************************************)
EXTENDS Integers, Sequences, FiniteSets, TLC

VARIABLES
    model,            \* the App's model state (useHistory state)
    textureDensity,   \* '16x' | '32x' | '64x'
    uvScaleFactor,    \* <<numerator, denominator>> of the viewer's uvScale
    textureData,      \* <<>> (null) or <<width, height>> of the displayed image
    phase,            \* the last operation applied
    source,           \* the argument of the last library call
    output,           \* the value returned by the last library call
    requests,         \* the App's asynchronous handlers that have not finished
    isGenerating,
    isGeneratingTexture,
    operations        \* how many handlers of the App have been invoked

appVars == <<requests, isGenerating, isGeneratingTexture, operations>>

vars == <<model, textureDensity, uvScaleFactor, textureData, phase, source, output,
          appVars>>

\* no handler of the App is running
AppIdle ==
    /\ requests = <<>>
    /\ isGenerating = FALSE
    /\ isGeneratingTexture = FALSE
    /\ operations = 0

--------------------------------------------------------------------------
(* Arithmetic helpers *)

Max(a, b) == IF a >= b THEN a ELSE b

\* n whole model units, in ticks
Units(n) == 4 * n

\* Math.ceil(t / 4 * k): ceiling of (ticks t) scaled by the integer k, in pixels
CeilScaled(t, k) == -((-(t * k)) \div 4)

\* Math.ceil(t/4 * num/den), den > 0
CeilRatio(t, num, den) == -((-(t * num)) \div (4 * den))

NoUV == <<>>
NoPivot == <<>>
NoRotation == <<>>
NoParent == ""
Null == <<>>

--------------------------------------------------------------------------
(* textureMapper.ts *)

PADDING == 2
MIN_TEXTURE_SIZE == 64

Densities == {"16x", "32x", "64x"}

\* packUVs lines 34-36 / drawTextureLayout lines 155-157
DensityScale(density) ==
    IF density = "64x" THEN 4 ELSE IF density = "32x" THEN 2 ELSE 1

\* getBoxUVSize rounding the scaled sizes down instead of up
getBoxUVSizeFloor(cube, densityScale) ==
    LET rw == (cube.size[1] * densityScale) \div 4
        rh == (cube.size[2] * densityScale) \div 4
        rd == (cube.size[3] * densityScale) \div 4
    IN  [w |-> 2 * (rw + rd), h |-> rd + rh]

\* getBoxUVSize: cube.size is <<w, h, d>> in ticks
getBoxUVSize(cube, densityScale) ==
    LET rw == CeilScaled(cube.size[1], densityScale)
        rh == CeilScaled(cube.size[2], densityScale)
        rd == CeilScaled(cube.size[3], densityScale)
    IN  [w |-> 2 * (rw + rd), h |-> rd + rh]

\* packUVs step 1: one item per cube, bones in order, cubes in order
RECURSIVE CollectCubes(_, _, _, _)
CollectCubes(bones, bIdx, cIdx, densityScale) ==
    IF bIdx > Len(bones) THEN <<>>
    ELSE IF cIdx > Len(bones[bIdx].cubes)
         THEN CollectCubes(bones, bIdx + 1, 1, densityScale)
         ELSE LET size == getBoxUVSize(bones[bIdx].cubes[cIdx], densityScale)
              IN  <<[b |-> bIdx, c |-> cIdx, w |-> size.w, h |-> size.h]>>
                  \o CollectCubes(bones, bIdx, cIdx + 1, densityScale)

\* insertion of one item into a list sorted by descending h, after its equals
RECURSIVE InsertByHeight(_, _)
InsertByHeight(sorted, item) ==
    IF sorted = <<>> THEN <<item>>
    ELSE IF item.h > Head(sorted).h
         THEN <<item>> \o sorted
         ELSE <<Head(sorted)>> \o InsertByHeight(Tail(sorted), item)

\* a sort by descending h that puts an item before its equals, so that items
\* of equal height come out in the reverse of the input order
RECURSIVE InsertBeforeEquals(_, _)
InsertBeforeEquals(sorted, item) ==
    IF sorted = <<>> THEN <<item>>
    ELSE IF item.h >= Head(sorted).h
         THEN <<item>> \o sorted
         ELSE <<Head(sorted)>> \o InsertBeforeEquals(Tail(sorted), item)

RECURSIVE SortByHeightTiesReversed(_)
SortByHeightTiesReversed(items) ==
    IF items = <<>> THEN <<>>
    ELSE InsertBeforeEquals(SortByHeightTiesReversed(SubSeq(items, 1, Len(items) - 1)),
                            items[Len(items)])

\* packUVs step 2: items.sort((a, b) => b.h - a.h), a stable sort
RECURSIVE SortByHeight(_)
SortByHeight(items) ==
    IF items = <<>> THEN <<>>
    ELSE InsertByHeight(SortByHeight(SubSeq(items, 1, Len(items) - 1)),
                        items[Len(items)])

RECURSIVE TotalArea(_)
TotalArea(items) ==
    IF items = <<>> THEN 0
    ELSE Head(items).w * Head(items).h + TotalArea(Tail(items))

\* EstimateDim without the margin of one half: doubling while dim * dim is
\* less than the total area itself
RECURSIVE EstimateDimNoMargin(_, _)
EstimateDimNoMargin(dim, totalArea) ==
    IF dim * dim < totalArea THEN EstimateDimNoMargin(2 * dim, totalArea) ELSE dim

\* while ((dim * dim) < totalArea * 1.5) dim *= 2
RECURSIVE EstimateDim(_, _)
EstimateDim(dim, totalArea) ==
    IF 2 * dim * dim < 3 * totalArea THEN EstimateDim(2 * dim, totalArea) ELSE dim

\* PlaceItem advancing the cursor by the item width only, without the padding
PlaceItemNoPadding(st, item, textureW) ==
    LET newRow == st.x + item.w > textureW
        x0 == IF newRow THEN 0 ELSE st.x
        y0 == IF newRow THEN st.y + st.rowHeight + PADDING ELSE st.y
        r0 == IF newRow THEN 0 ELSE st.rowHeight
        h0 == IF y0 + item.h > st.textureH THEN st.textureH * 2 ELSE st.textureH
    IN  [x |-> x0 + item.w,
         y |-> y0,
         rowHeight |-> Max(r0, item.h),
         textureH |-> h0,
         placed |-> Append(st.placed, [b |-> item.b, c |-> item.c, uv |-> <<x0, y0>>])]

\* One iteration of the items.forEach of lines 72-91.
\* st = [x, y, rowHeight, textureH, placed]; placed collects [b, c, uv].
PlaceItem(st, item, textureW) ==
    LET newRow == st.x + item.w > textureW
        x0 == IF newRow THEN 0 ELSE st.x
        y0 == IF newRow THEN st.y + st.rowHeight + PADDING ELSE st.y
        r0 == IF newRow THEN 0 ELSE st.rowHeight
        h0 == IF y0 + item.h > st.textureH THEN st.textureH * 2 ELSE st.textureH
    IN  [x |-> x0 + item.w + PADDING,
         y |-> y0,
         rowHeight |-> Max(r0, item.h),
         textureH |-> h0,
         placed |-> Append(st.placed, [b |-> item.b, c |-> item.c, uv |-> <<x0, y0>>])]

RECURSIVE ShelfPack(_, _, _)
ShelfPack(st, items, textureW) ==
    IF items = <<>> THEN st
    ELSE ShelfPack(PlaceItem(st, Head(items), textureW), Tail(items), textureW)

\* the packing of lines 38-95, the estimate starting at startDim:
\* [placed, texture_size]
PackLayoutFrom(bones, density, startDim) ==
    LET items == SortByHeight(CollectCubes(bones, 1, 1, DensityScale(density)))
        dim == EstimateDim(startDim, TotalArea(items))
        fin == ShelfPack([x |-> 0, y |-> 0, rowHeight |-> 0, textureH |-> dim,
                          placed |-> <<>>], items, dim)
        w1 == IF fin.textureH > dim THEN fin.textureH ELSE dim
        h1 == IF w1 > fin.textureH THEN w1 ELSE fin.textureH
    IN  [placed |-> fin.placed, texture_size |-> <<w1, h1>>]

\* let dim = MIN_TEXTURE_SIZE
PackLayout(bones, density) == PackLayoutFrom(bones, density, MIN_TEXTURE_SIZE)

\* the uv the layout gives cube (b, c)
PlacedUV(placed, b, c) ==
    LET i == CHOOSE i \in 1..Len(placed) : placed[i].b = b /\ placed[i].c = c
    IN  placed[i].uv

\* bones with every cube's uv replaced by the layout's
ApplyUVs(bones, placed) ==
    [b \in 1..Len(bones) |->
        [bones[b] EXCEPT !.cubes =
            [c \in 1..Len(bones[b].cubes) |->
                [bones[b].cubes[c] EXCEPT !.uv = PlacedUV(placed, b, c)]]]]

\* packUVs starting its size estimate from the model's current atlas width
\* instead of MIN_TEXTURE_SIZE
packUVsFromCurrentAtlas(m, density) ==
    IF m.type # "ENTITY" THEN m
    ELSE LET lay == PackLayoutFrom(m.bones, density, m.texture_size[1])
         IN  [m EXCEPT !.texture_size = lay.texture_size,
                       !.bones = ApplyUVs(m.bones, lay.placed)]

\* packUVs: the returned model
packUVs(m, density) ==
    IF m.type # "ENTITY" THEN m
    ELSE LET lay == PackLayout(m.bones, density)
         IN  [m EXCEPT !.texture_size = lay.texture_size,
                       !.bones = ApplyUVs(m.bones, lay.placed)]

\* packUVs: what the call leaves in its argument (item.cubeRef.uv = ... writes
\* the argument's own cubes; its texture_size is not written)
packUVsArgument(m, density) ==
    IF m.type # "ENTITY" THEN m
    ELSE [m EXCEPT !.bones = ApplyUVs(m.bones, PackLayout(m.bones, density).placed)]

\* Math.round(u * newSize / oldSize): Math.round rounds halves up
RoundScaled(u, newSize, oldSize) == (2 * u * newSize + oldSize) \div (2 * oldSize)

\* scaleModelUVs with Math.floor in place of Math.round
scaleModelUVsFloor(m, newWidth, newHeight) ==
    LET oldW == m.texture_size[1]
        oldH == m.texture_size[2]
    IN  IF oldW = newWidth /\ oldH = newHeight THEN m
        ELSE [m EXCEPT
                !.texture_size = <<newWidth, newHeight>>,
                !.bones = [b \in 1..Len(m.bones) |->
                    [m.bones[b] EXCEPT !.cubes =
                        [c \in 1..Len(m.bones[b].cubes) |->
                            LET cube == m.bones[b].cubes[c]
                            IN  IF cube.uv = NoUV THEN cube
                                ELSE [cube EXCEPT !.uv =
                                        <<(cube.uv[1] * newWidth) \div oldW,
                                          (cube.uv[2] * newHeight) \div oldH>>]]]]]

\* scaleModelUVs that rescales every uv and leaves texture_size as it was
scaleModelUVsKeepSize(m, newWidth, newHeight) ==
    LET oldW == m.texture_size[1]
        oldH == m.texture_size[2]
    IN  IF oldW = newWidth /\ oldH = newHeight THEN m
        ELSE [m EXCEPT
                !.bones = [b \in 1..Len(m.bones) |->
                    [m.bones[b] EXCEPT !.cubes =
                        [c \in 1..Len(m.bones[b].cubes) |->
                            LET cube == m.bones[b].cubes[c]
                            IN  IF cube.uv = NoUV THEN cube
                                ELSE [cube EXCEPT !.uv =
                                        <<RoundScaled(cube.uv[1], newWidth, oldW),
                                          RoundScaled(cube.uv[2], newHeight, oldH)>>]]]]]

\* scaleModelUVs
scaleModelUVs(m, newWidth, newHeight) ==
    LET oldW == m.texture_size[1]
        oldH == m.texture_size[2]
    IN  IF oldW = newWidth /\ oldH = newHeight THEN m
        ELSE [m EXCEPT
                !.texture_size = <<newWidth, newHeight>>,
                !.bones = [b \in 1..Len(m.bones) |->
                    [m.bones[b] EXCEPT !.cubes =
                        [c \in 1..Len(m.bones[b].cubes) |->
                            LET cube == m.bones[b].cubes[c]
                            IN  IF cube.uv = NoUV THEN cube
                                ELSE [cube EXCEPT !.uv =
                                        <<RoundScaled(cube.uv[1], newWidth, oldW),
                                          RoundScaled(cube.uv[2], newHeight, oldH)>>]]]]]

Rect(face, x, y, w, h) == [face |-> face, x |-> x, y |-> y, w |-> w, h |-> h]

\* DrawCube with the left face drawn at the front face's x
DrawCubeLeftAtFront(cube, scale) ==
    LET u == cube.uv[1]
        v == cube.uv[2]
        w_px == CeilScaled(cube.size[1], scale)
        h_px == CeilScaled(cube.size[2], scale)
        d_px == CeilScaled(cube.size[3], scale)
    IN  << Rect("top",    u + d_px,               v,        w_px, d_px),
           Rect("bottom", u + d_px + w_px,        v,        w_px, d_px),
           Rect("right",  u,                      v + d_px, d_px, h_px),
           Rect("front",  u + d_px,               v + d_px, w_px, h_px),
           Rect("left",   u + d_px,               v + d_px, d_px, h_px),
           Rect("back",   u + d_px + w_px + d_px, v + d_px, w_px, h_px) >>

\* DrawCube with the top face drawn half a face width further right
DrawCubeTopShifted(cube, scale) ==
    LET u == cube.uv[1]
        v == cube.uv[2]
        w_px == CeilScaled(cube.size[1], scale)
        h_px == CeilScaled(cube.size[2], scale)
        d_px == CeilScaled(cube.size[3], scale)
    IN  << Rect("top",    u + d_px + w_px \div 2, v,        w_px, d_px),
           Rect("bottom", u + d_px + w_px,        v,        w_px, d_px),
           Rect("right",  u,                      v + d_px, d_px, h_px),
           Rect("front",  u + d_px,               v + d_px, w_px, h_px),
           Rect("left",   u + d_px + w_px,        v + d_px, d_px, h_px),
           Rect("back",   u + d_px + w_px + d_px, v + d_px, w_px, h_px) >>

\* drawTextureLayout lines 162-204: the six drawRect calls for one cube, in order
DrawCube(cube, scale) ==
    LET u == cube.uv[1]
        v == cube.uv[2]
        w_px == CeilScaled(cube.size[1], scale)
        h_px == CeilScaled(cube.size[2], scale)
        d_px == CeilScaled(cube.size[3], scale)
    IN  << Rect("top",    u + d_px,               v,        w_px, d_px),
           Rect("bottom", u + d_px + w_px,        v,        w_px, d_px),
           Rect("right",  u,                      v + d_px, d_px, h_px),
           Rect("front",  u + d_px,               v + d_px, w_px, h_px),
           Rect("left",   u + d_px + w_px,        v + d_px, d_px, h_px),
           Rect("back",   u + d_px + w_px + d_px, v + d_px, w_px, h_px) >>

\* drawTextureLayout: what is drawn on the canvas, [b, c, rects] per cube that
\* has a uv, bones in order, cubes in order
RECURSIVE DrawBones(_, _, _, _)
DrawBones(bones, bIdx, cIdx, scale) ==
    IF bIdx > Len(bones) THEN <<>>
    ELSE IF cIdx > Len(bones[bIdx].cubes)
         THEN DrawBones(bones, bIdx + 1, 1, scale)
         ELSE LET cube == bones[bIdx].cubes[cIdx]
              IN  (IF cube.uv = NoUV THEN <<>>
                   ELSE <<[b |-> bIdx, c |-> cIdx, rects |-> DrawCube(cube, scale)]>>)
                  \o DrawBones(bones, bIdx, cIdx + 1, scale)

drawTextureLayout(m, density) ==
    IF m.type # "ENTITY" THEN <<>>
    ELSE DrawBones(m.bones, 1, 1, DensityScale(density))

--------------------------------------------------------------------------
(* modelExporter: getTextureLayout *)

\* the face offsets written for one cube; cube.uv || [0, 0]
getTextureLayout(cube) ==
    LET u == IF cube.uv = NoUV THEN 0 ELSE cube.uv[1]
        v == IF cube.uv = NoUV THEN 0 ELSE cube.uv[2]
        rw == CeilScaled(cube.size[1], 1)
        rh == CeilScaled(cube.size[2], 1)
        rd == CeilScaled(cube.size[3], 1)
    IN  [front  |-> <<u + rd, v + rd>>,
         back   |-> <<u + rd + rw + rd, v + rd>>,
         left   |-> <<u + rd + rw, v + rd>>,
         right  |-> <<u, v + rd>>,
         top    |-> <<u + rd, v>>,
         bottom |-> <<u + rd + rw, v>>]

\* size / 2 of a size in ticks (sizes are an even number of ticks)
Half(t) == t \div 2

Vec3Add(a, b) == <<a[1] + b[1], a[2] + b[2], a[3] + b[3]>>
Vec3Sub(a, b) == <<a[1] - b[1], a[2] - b[2], a[3] - b[3]>>
Vec3Half(a) == <<Half(a[1]), Half(a[2]), Half(a[3])>>

\* An angle is the pair <<5 cos, 5 sin>> of a point with whole coordinates on
\* the circle of radius 5: 0, 90, 180, -90 degrees and the angles of the 3-4-5
\* triangle (36.87, 53.13, ... degrees).  Sines and cosines are then exact.
Angles == { a \in (-5..5) \X (-5..5) : a[1] * a[1] + a[2] * a[2] = 25 }

Deg0 == <<5, 0>>
Deg90 == <<0, 5>>
Deg180 == <<-5, 0>>

\* bone.rotation || [0, 0, 0]
RotationOf(x) == IF x.rotation = NoRotation THEN <<Deg0, Deg0, Deg0>> ELSE x.rotation

\* eulerToQuaternion: the orientation q.setFromEuler(new THREE.Euler(x, y, z,
\* 'ZYX')) stands for.  A unit quaternion is kept as the rotation matrix it
\* encodes, <<m11, m12, m13, m21, m22, m23, m31, m32, m33>> times 125.
eulerToQuaternion(rot) ==
    LET a == rot[1][1]
        b == rot[1][2]
        c == rot[2][1]
        d == rot[2][2]
        e == rot[3][1]
        f == rot[3][2]
    IN  << 5 * c * e, b * e * d - 5 * a * f, a * e * d + 5 * b * f,
           5 * c * f, b * f * d + 5 * a * e, a * f * d - 5 * b * e,
           -25 * d,   5 * b * c,             5 * a * c >>

\* { x: 0, y: 0, z: 0, w: 1 }
IdentityQuaternion == <<125, 0, 0, 0, 125, 0, 0, 0, 125>>

\* shape of a bone node and of an attachment node
GroupShape(isPiece) ==
    [type |-> "none", offset |-> <<0, 0, 0>>, isPiece |-> isPiece,
     size |-> <<>>, textureLayout |-> <<>>]

\* shape of a cube node
BoxShape(cube) ==
    [type |-> "box", offset |-> <<0, 0, 0>>, isPiece |-> FALSE,
     size |-> cube.size, textureLayout |-> getTextureLayout(cube)]

\* CubeNode with the cube centre left absolute instead of relative to the pivot
CubeNodeAbsolute(bone, idx, id) ==
    LET cube == bone.cubes[idx]
        centre == Vec3Add(cube.origin, Vec3Half(cube.size))
    IN  [id |-> id,
         name |-> bone.name \o "_shape_" \o ToString(idx - 1),
         children |-> <<>>,
         position |-> centre,
         orientation |-> eulerToQuaternion(RotationOf(cube)),
         shape |-> BoxShape(cube)]

\* buildHytaleNodeTree lines 101-138: the node of cube idx (0-based in its name)
\* of a bone; position = cube centre - bone pivot
CubeNode(bone, idx, id) ==
    LET cube == bone.cubes[idx]
        centre == Vec3Add(cube.origin, Vec3Half(cube.size))
    IN  [id |-> id,
         name |-> bone.name \o "_shape_" \o ToString(idx - 1),
         children |-> <<>>,
         position |-> Vec3Sub(centre, bone.pivot),
         orientation |-> eulerToQuaternion(RotationOf(cube)),
         shape |-> BoxShape(cube)]

\* buildHytaleNodeTree lines 143-173: the node of one attachment.  An attachment
\* is [kind |-> "string", name] or [kind |-> "object", name, position].
AttachmentNode(att, id) ==
    [id |-> id,
     name |-> IF att.kind = "string" THEN att.name
              ELSE IF att.name = "" THEN "attachment" ELSE att.name,
     children |-> <<>>,
     position |-> IF att.kind = "string" THEN <<0, 0, 0>> ELSE att.position,
     orientation |-> IdentityQuaternion,
     shape |-> GroupShape(TRUE)]

\* ChildBones that keeps the first matching bone only
ChildBonesFirstOnly(bones, parentId) ==
    LET all == IF parentId # ""
               THEN SelectSeq(bones, LAMBDA b : b.parent = parentId)
               ELSE SelectSeq(bones, LAMBDA b : b.parent = NoParent)
    IN  IF all = <<>> THEN <<>> ELSE <<Head(all)>>

\* bones.filter(b => parentId ? b.parent === parentId : !b.parent)
ChildBones(bones, parentId) ==
    IF parentId # ""
    THEN SelectSeq(bones, LAMBDA b : b.parent = parentId)
    ELSE SelectSeq(bones, LAMBDA b : b.parent = NoParent)

\* BoneNode with the pivot written as it is, not relative to the parent's pivot
BoneNodeAbsolute(bone, parentPivot, id, children) ==
    [id |-> id,
     name |-> bone.name,
     children |-> children,
     position |-> bone.pivot,
     orientation |-> eulerToQuaternion(RotationOf(bone)),
     shape |-> GroupShape(FALSE)]

\* buildHytaleNodeTree lines 68-95: the node of a bone; position = pivot -
\* parent pivot
BoneNode(bone, parentPivot, id, children) ==
    [id |-> id,
     name |-> bone.name,
     children |-> children,
     position |-> Vec3Sub(bone.pivot, parentPivot),
     orientation |-> eulerToQuaternion(RotationOf(bone)),
     shape |-> GroupShape(FALSE)]

\* buildHytaleNodeTree.  counter is nodeIdCounter; the result is
\* [nodes, counter, overflow].  A call nested deeper than the number of bones
\* has some bone twice on its path and recurses for ever: the call stack
\* overflows (RangeError), reported as overflow.
RECURSIVE BuildBoneNodes(_, _, _, _, _)
BuildBoneNodes(bones, currentBones, parentPivot, counter, depth) ==
    IF currentBones = <<>>
    THEN [nodes |-> <<>>, counter |-> counter, overflow |-> FALSE]
    ELSE IF depth > Len(bones)
    THEN [nodes |-> <<>>, counter |-> counter, overflow |-> TRUE]
    ELSE
      LET bone == Head(currentBones)
          boneId == counter + 1
          nCubes == Len(bone.cubes)
          nAtts == Len(bone.attachments)
          cubeNodes == [i \in 1..nCubes |-> CubeNode(bone, i, boneId + i)]
          attNodes == [i \in 1..nAtts |->
                          AttachmentNode(bone.attachments[i], boneId + nCubes + i)]
          sub == BuildBoneNodes(bones, ChildBones(bones, bone.name), bone.pivot,
                                boneId + nCubes + nAtts, depth + 1)
          boneNode == BoneNode(bone, parentPivot, boneId,
                               cubeNodes \o attNodes \o sub.nodes)
          rest == IF sub.overflow
                  THEN [nodes |-> <<>>, counter |-> sub.counter, overflow |-> TRUE]
                  ELSE BuildBoneNodes(bones, Tail(currentBones), parentPivot,
                                      sub.counter, depth)
      IN  [nodes |-> <<boneNode>> \o rest.nodes,
           counter |-> rest.counter,
           overflow |-> rest.overflow]

buildHytaleNodeTree(bones, parentId, parentPivot, counter) ==
    BuildBoneNodes(bones, ChildBones(bones, parentId), parentPivot, counter, 1)

\* exportHytaleModel lines 210-227: nodeIdCounter = 0, then the root call
exportHytaleModel(m) == buildHytaleNodeTree(m.bones, "", <<0, 0, 0>>, 0)

--------------------------------------------------------------------------
(* modelImporter: convertHytaleToBedrock *)

\* getBone: index of the first bone named name, 0 when there is none
getBone(bones, name) ==
    IF \E i \in 1..Len(bones) : bones[i].name = name
    THEN CHOOSE i \in 1..Len(bones) :
            /\ bones[i].name = name
            /\ \A j \in 1..(i - 1) : bones[j].name # name
    ELSE 0

\* lines 70-79: the uv read back from the node's textureLayout
ImportedUV(shape) ==
    IF shape.textureLayout = <<>> THEN NoUV
    ELSE <<shape.textureLayout.right[1], shape.textureLayout.top[2]>>

\* the whole number whose square is v
ISqrt(v) == CHOOSE n \in 0..125 : n * n = v

\* Math.atan2(y, x) as an angle, for a vector (x, y) of whole length
Atan2(y, x) ==
    LET n == ISqrt(x * x + y * y)
    IN  <<(5 * x) \div n, (5 * y) \div n>>

\* setFromQuaternion that recovers the x angle only
setFromQuaternionFirstAxis(q) == <<Atan2(q[8], q[9]), Deg0, Deg0>>

\* new THREE.Euler().setFromQuaternion(q, 'ZYX'), as three angles <<x, y, z>>:
\* y = asin(-m31) lies in [-90, 90]; when |m31| is 1 (gimbal lock) x is 0
setFromQuaternion(q) ==
    LET m11 == q[1]
        m12 == q[2]
        m21 == q[4]
        m22 == q[5]
        m31 == q[7]
        m32 == q[8]
        m33 == q[9]
        sinY == (-m31) \div 25
        y == <<ISqrt(25 - sinY * sinY), sinY>>
    IN  IF m31 # 125 /\ m31 # -125
        THEN <<Atan2(m32, m33), y, Atan2(m21, m11)>>
        ELSE <<Deg0, y, Atan2(-m12, m22)>>

\* RootBoxCube with the node position taken as the cube's origin
RootBoxCubeAtPivot(currentPivot, size) ==
    [origin |-> currentPivot, size |-> size, uv |-> NoUV, pivot |-> NoPivot,
     rotation |-> NoRotation]

\* lines 130-137: the cube a top-level box node adds to its own bone
RootBoxCube(currentPivot, size) ==
    [origin |-> Vec3Sub(currentPivot, Vec3Half(size)), size |-> size,
     uv |-> NoUV, pivot |-> NoPivot, rotation |-> NoRotation]

\* traverse (lines 20-145) and the forEach that calls it on a list of nodes;
\* bones is the list built so far, the result is the list afterwards
RECURSIVE TraverseAll(_, _, _, _)
traverse(node, parentName, parentPivot, bones) ==
    LET relPos == node.position
        currentPivot == Vec3Add(parentPivot, relPos)
        isGeometry == node.shape.type = "box"
        isAttachment == node.shape.isPiece
        p == IF parentName # "" THEN getBone(bones, parentName) ELSE 0
    IN  IF isGeometry /\ p # 0
        THEN [bones EXCEPT ![p].cubes = Append(@,
                [origin |-> Vec3Sub(Vec3Add(currentPivot, node.shape.offset),
                                    Vec3Half(node.shape.size)),
                 size |-> node.shape.size,
                 uv |-> ImportedUV(node.shape),
                 pivot |-> currentPivot,
                 rotation |-> setFromQuaternion(node.orientation)])]
        ELSE IF isAttachment /\ p # 0
        THEN [bones EXCEPT ![p].attachments = Append(@,
                [kind |-> "object", name |-> node.name, position |-> relPos])]
        ELSE LET newBone ==
                    [name |-> node.name,
                     parent |-> parentName,
                     pivot |-> currentPivot,
                     rotation |-> setFromQuaternion(node.orientation),
                     cubes |-> IF isGeometry /\ parentName = ""
                               THEN <<RootBoxCube(currentPivot, node.shape.size)>>
                               ELSE <<>>,
                     attachments |-> <<>>]
             IN  TraverseAll(node.children, node.name, currentPivot,
                             Append(bones, newBone))

TraverseAll(nodes, parentName, parentPivot, bones) ==
    IF nodes = <<>> THEN bones
    ELSE TraverseAll(Tail(nodes), parentName, parentPivot,
                     traverse(Head(nodes), parentName, parentPivot, bones))

convertHytaleToBedrock(nodes) ==
    [type |-> "ENTITY",
     texture_size |-> <<64, 64>>,
     bones |-> TraverseAll(nodes, "", <<0, 0, 0>>, <<>>)]

--------------------------------------------------------------------------
(* The library specification: packUVs, scaleModelUVs, drawTextureLayout and *)
(* getTextureLayout applied to bounded input models.                        *)

MaxCubes == 3

\* cube sizes <<w, h, d>> of the inputs: a regular cube, a cube with
\* fractional sizes, a wide slab and a tall post
CubeSizes ==
    { <<Units(8), Units(8), Units(8)>>,
      <<2, 6, 2>>,
      <<Units(12), Units(4), Units(12)>>,
      <<Units(1), Units(70), Units(1)>> }

\* naturalWidth x naturalHeight of the images handed to scaleModelUVs
ImageSizes == { <<64, 64>>, <<128, 128>>, <<128, 64>>, <<96, 96>> }

\* a cube of the inputs, at the origin INITIAL_MODEL's cube has (neither the
\* packer nor the renderer reads it)
NewCube(size) ==
    [origin |-> <<Units(-4), 0, Units(-4)>>, size |-> size, uv |-> NoUV, pivot |-> NoPivot,
     rotation |-> NoRotation]

NewBone(name, parent, pivot, cubes, attachments) ==
    [name |-> name, parent |-> parent, pivot |-> pivot, rotation |-> NoRotation,
     cubes |-> cubes,
     attachments |-> attachments]

\* an ENTITY model of two bones: the first half of the cubes in "root", the
\* rest in its child "body"
InputModel(sizes) ==
    LET k == (Len(sizes) + 1) \div 2
    IN  [type |-> "ENTITY",
         texture_size |-> <<MIN_TEXTURE_SIZE, MIN_TEXTURE_SIZE>>,
         bones |-> << NewBone("root", NoParent, <<0, 0, 0>>,
                              [i \in 1..k |-> NewCube(sizes[i])], <<>>),
                      NewBone("body", "root", <<0, 0, 0>>,
                              [i \in 1..(Len(sizes) - k) |-> NewCube(sizes[k + i])],
                              <<>>) >>]

InputModels ==
    { InputModel(sizes) : sizes \in UNION { [1..n -> CubeSizes] : n \in 0..MaxCubes } }

LibInit ==
    /\ model \in InputModels
    /\ textureDensity \in Densities
    /\ uvScaleFactor = <<1, 1>>
    /\ textureData = Null
    /\ phase = "input"
    /\ source = Null
    /\ output = Null
    /\ AppIdle

\* packed = packUVs(model, density)
LibPack ==
    /\ model' = packUVs(model, textureDensity)
    /\ source' = packUVsArgument(model, textureDensity)
    /\ phase' = "packed"
    /\ output' = Null
    /\ UNCHANGED <<textureDensity, uvScaleFactor, textureData, appVars>>

\* packUVs called again on the object that was the previous call's argument
LibPackArgument ==
    /\ phase = "packed"
    /\ source # Null
    /\ model' = packUVs(source, textureDensity)
    /\ source' = packUVsArgument(source, textureDensity)
    /\ phase' = "packed"
    /\ output' = Null
    /\ UNCHANGED <<textureDensity, uvScaleFactor, textureData, appVars>>

\* scaled = scaleModelUVs(model, img.naturalWidth, img.naturalHeight)
LibScale ==
    /\ phase \in {"input", "packed", "scaled"}
    /\ \E img \in ImageSizes :
          /\ model' = scaleModelUVs(model, img[1], img[2])
          /\ source' = model
          /\ output' = img
    /\ phase' = IF phase = "scaled" THEN "rescaled" ELSE "scaled"
    /\ UNCHANGED <<textureDensity, uvScaleFactor, textureData, appVars>>

\* layoutImage = drawTextureLayout(model, density)
LibDraw ==
    /\ phase = "packed"
    /\ output' = drawTextureLayout(model, textureDensity)
    /\ phase' = "drawn"
    /\ source' = model
    /\ UNCHANGED <<model, textureDensity, uvScaleFactor, textureData, appVars>>

\* the textureLayout of every cube node written by the exporter
LibExportLayout ==
    /\ phase = "packed"
    /\ output' = [b \in 1..Len(model.bones) |->
                    [c \in 1..Len(model.bones[b].cubes) |->
                        getTextureLayout(model.bones[b].cubes[c])]]
    /\ phase' = "exported"
    /\ source' = model
    /\ UNCHANGED <<model, textureDensity, uvScaleFactor, textureData, appVars>>

LibNext == LibPack \/ LibPackArgument \/ LibScale \/ LibDraw \/ LibExportLayout

LibSpec == LibInit /\ [][LibNext]_vars

--------------------------------------------------------------------------
(* Properties of the packer and the layout renderer, checked under LibSpec *)

\* the cubes of a model, as <<bone index, cube index>>
CubeIds(m) ==
    { <<b, c>> \in (1..Len(m.bones)) \X (1..MaxCubes + 1) : c <= Len(m.bones[b].cubes) }

CubeAt(m, id) == m.bones[id[1]].cubes[id[2]]

\* the ceiling of (t ticks) * s, from the quotient and the remainder
CeilOf(t, s) == ((t * s) \div 4) + (IF (t * s) % 4 = 0 THEN 0 ELSE 1)

\* footprint W x H of a cube at scale s, as the specification states it
FootW(cube, s) == 2 * (CeilOf(cube.size[1], s) + CeilOf(cube.size[3], s))
FootH(cube, s) == CeilOf(cube.size[3], s) + CeilOf(cube.size[2], s)

AllSizesPositive(m) ==
    \A id \in CubeIds(m) : \A k \in 1..3 : CubeAt(m, id).size[k] > 0

\* two footprints at least PADDING apart in x or in y
Separated(c1, c2, s) ==
    \/ c1.uv[1] + FootW(c1, s) + PADDING <= c2.uv[1]
    \/ c2.uv[1] + FootW(c2, s) + PADDING <= c1.uv[1]
    \/ c1.uv[2] + FootH(c1, s) + PADDING <= c2.uv[2]
    \/ c2.uv[2] + FootH(c2, s) + PADDING <= c1.uv[2]

\* C1: after packUVs on an ENTITY model with positive cube sizes, the footprints
\* of any two distinct cubes do not overlap and are at least the 2-pixel padding
\* apart in x or in y.
C1_FootprintsDisjoint ==
    (phase = "packed" /\ model.type = "ENTITY" /\ AllSizesPositive(model)) =>
        \A p, q \in CubeIds(model) :
            p # q => Separated(CubeAt(model, p), CubeAt(model, q),
                               DensityScale(textureDensity))

\* a packed model with two cubes sharing a row and two cubes in different rows
C1_Witness ==
    /\ phase = "packed"
    /\ \E p, q \in CubeIds(model) :
          p # q /\ CubeAt(model, p).uv[2] = CubeAt(model, q).uv[2]
    /\ \E p, q \in CubeIds(model) :
          CubeAt(model, p).uv[2] # CubeAt(model, q).uv[2]

InsideAtlas(cube, s, texture_size) ==
    /\ 0 <= cube.uv[1]
    /\ 0 <= cube.uv[2]
    /\ cube.uv[1] + FootW(cube, s) <= texture_size[1]
    /\ cube.uv[2] + FootH(cube, s) <= texture_size[2]

\* C2: after packUVs every cube's footprint lies inside the atlas (the atlas
\* height having been doubled as often as an item needs).
C2_FootprintsInsideAtlas ==
    phase = "packed" =>
        \A id \in CubeIds(model) :
            InsideAtlas(CubeAt(model, id), DensityScale(textureDensity),
                        model.texture_size)

\* C3: packing again, at the same density, the model packUVs returned or the
\* object it was given returns the same uv origins and the same texture_size.
C3_Repacking == [][(phase = "packed" /\ phase' = "packed") => model' = model]_vars

\* a model packed a second time (the argument already had the packed atlas
\* size), with an atlas that grew and more than one row
C3_Witness ==
    /\ phase = "packed"
    /\ source # Null
    /\ source.texture_size = model.texture_size
    /\ model.texture_size[1] > MIN_TEXTURE_SIZE
    /\ \E p, q \in CubeIds(model) :
          CubeAt(model, p).uv[2] # CubeAt(model, q).uv[2]

\* the rectangle a face of the cube occupies per section 4.1 of the design
FaceRect(cube, s, face) ==
    LET u == cube.uv[1]
        v == cube.uv[2]
        rw == CeilOf(cube.size[1], s)
        rh == CeilOf(cube.size[2], s)
        rd == CeilOf(cube.size[3], s)
    IN  CASE face = "top"    -> Rect(face, u + rd, v, rw, rd)
          [] face = "bottom" -> Rect(face, u + rd + rw, v, rw, rd)
          [] face = "right"  -> Rect(face, u, v + rd, rd, rh)
          [] face = "front"  -> Rect(face, u + rd, v + rd, rw, rh)
          [] face = "left"   -> Rect(face, u + rd + rw, v + rd, rd, rh)
          [] face = "back"   -> Rect(face, u + rd + rw + rd, v + rd, rw, rh)

Faces == {"top", "bottom", "left", "right", "front", "back"}

RectsOverlap(r1, r2) ==
    /\ r1.x < r2.x + r2.w
    /\ r2.x < r1.x + r1.w
    /\ r1.y < r2.y + r2.h
    /\ r2.y < r1.y + r1.h

RectInside(r, x, y, w, h) ==
    /\ x <= r.x
    /\ y <= r.y
    /\ r.x + r.w <= x + w
    /\ r.y + r.h <= y + h

\* C7: the six face offsets the exporter writes for a cube are the positions of
\* the six face rectangles the packer and the layout renderer use for it at the
\* density it was packed with.
C7_ExportedLayoutMatches ==
    phase = "exported" =>
        \A id \in CubeIds(model) : \A face \in Faces :
            LET r == FaceRect(CubeAt(model, id), DensityScale(textureDensity), face)
            IN  output[id[1]][id[2]][face] = <<r.x, r.y>>

\* C8: for each cube with a uv the renderer fills exactly the six rectangles of
\* section 4.1, which are pairwise disjoint and inside the cube's footprint.
C8_SixFaceRectangles ==
    phase = "drawn" =>
        /\ Len(output) = Cardinality({ id \in CubeIds(model) : CubeAt(model, id).uv # NoUV })
        /\ \A i \in 1..Len(output) :
              LET cube == CubeAt(model, <<output[i].b, output[i].c>>)
                  s == DensityScale(textureDensity)
                  drawn == { output[i].rects[k] : k \in 1..Len(output[i].rects) }
              IN  /\ Len(output[i].rects) = 6
                  /\ drawn = { FaceRect(cube, s, face) : face \in Faces }
                  /\ \A r1, r2 \in drawn : r1 # r2 => ~RectsOverlap(r1, r2)
                  /\ \A r \in drawn :
                        RectInside(r, cube.uv[1], cube.uv[2], FootW(cube, s), FootH(cube, s))

\* a drawn layout holding a cube with fractional sizes next to another cube
C8_Witness ==
    /\ phase = "drawn"
    /\ Len(output) >= 2
    /\ \E id \in CubeIds(model) : CubeAt(model, id).size[1] % 4 # 0

\* C9: getBoxUVSize returns width 2*(ceil(w*s)+ceil(d*s)) and height
\* ceil(d*s)+ceil(h*s) for s in {1,2,4}, and the densities 16x, 32x, 64x map to
\* the scales 1, 2, 4.
C9_FootprintFormula ==
    /\ DensityScale("16x") = 1 /\ DensityScale("32x") = 2 /\ DensityScale("64x") = 4
    /\ \A id \in CubeIds(model) : \A s \in {1, 2, 4} :
          getBoxUVSize(CubeAt(model, id), s) =
              [w |-> FootW(CubeAt(model, id), s), h |-> FootH(CubeAt(model, id), s)]

\* a model holding a cube whose scaled size is not a whole number of pixels
C9_Witness ==
    /\ phase = "packed"
    /\ \E id \in CubeIds(model) : CubeAt(model, id).size[3] % 4 # 0

\* C10: every model produced by packUVs or scaleModelUVs has a square atlas.
C10_AtlasSquare ==
    phase \in {"packed", "scaled", "rescaled"} =>
        model.texture_size[1] = model.texture_size[2]

\* Math.round(n / d) for n >= 0, d > 0, from the quotient and the remainder:
\* halves round up
RoundOf(n, d) == (n \div d) + (IF 2 * (n % d) >= d THEN 1 ELSE 0)

\* cube c2 is cube c1 with its uv, when it has one, rescaled from the atlas
\* old to the atlas new; every other field is the same
RescaledCube(c1, c2, old, new) ==
    /\ c2.origin = c1.origin
    /\ c2.size = c1.size
    /\ c2.pivot = c1.pivot
    /\ c2.rotation = c1.rotation
    /\ IF c1.uv = NoUV THEN c2.uv = NoUV
       ELSE c2.uv = <<RoundOf(c1.uv[1] * new[1], old[1]),
                      RoundOf(c1.uv[2] * new[2], old[2])>>

\* C11: scaleModelUVs(model, W, H) returns the model unchanged when
\* texture_size is already [W, H]; otherwise the result has texture_size
\* [W, H], every assigned uv is [round(u*W/oldW), round(v*H/oldH)], a cube
\* without uv still has none and every other field equals the input's.
C11_ScaleModelUVs ==
    phase \in {"scaled", "rescaled"} =>
        IF source.texture_size = output
        THEN model = source
        ELSE /\ model.type = source.type
             /\ model.texture_size = output
             /\ Len(model.bones) = Len(source.bones)
             /\ \A b \in 1..Len(source.bones) :
                  /\ model.bones[b].name = source.bones[b].name
                  /\ model.bones[b].parent = source.bones[b].parent
                  /\ model.bones[b].pivot = source.bones[b].pivot
                  /\ model.bones[b].attachments = source.bones[b].attachments
                  /\ Len(model.bones[b].cubes) = Len(source.bones[b].cubes)
                  /\ \A c \in 1..Len(source.bones[b].cubes) :
                        RescaledCube(source.bones[b].cubes[c],
                                     model.bones[b].cubes[c],
                                     source.texture_size, output)

\* a packed model rescaled to another atlas size where some uv lands on a half
\* and is rounded up (uv 50 from 128 to 96 wide is 37.5, stored as 38)
C11_Witness ==
    /\ phase = "scaled"
    /\ source.texture_size # output
    /\ \E id \in CubeIds(source) :
          /\ CubeAt(source, id).uv # NoUV
          /\ (2 * CubeAt(source, id).uv[1] * output[1]) % (2 * source.texture_size[1])
                = source.texture_size[1]

\* a model whose cubes have no uv, rescaled: the cubes still have none
C11_WitnessNoUV ==
    /\ phase = "scaled"
    /\ source.texture_size # output
    /\ \E id \in CubeIds(source) :
          CubeAt(source, id).uv = NoUV /\ CubeAt(model, id).uv = NoUV

\* C15: packUVs does not modify its input: after the first packing of an
\* input model the argument of the call is the model it was before the call
\* (same uv or absence of uv on every cube, same texture_size).
C15_InputUnmodified ==
    [][(phase = "input" /\ phase' = "packed") => source' = model]_vars

\* what packUVs does instead: its argument comes out with the uv of the
\* returned model on every cube, and with the texture_size it had
C15_InputOverwritten ==
    [][(phase = "input" /\ phase' = "packed") =>
          /\ source'.bones = model'.bones
          /\ source'.texture_size = model.texture_size]_vars

\* the sum of the footprint areas of the cubes ids of m at scale s
RECURSIVE FootAreaSum(_, _, _)
FootAreaSum(m, ids, s) ==
    IF ids = {} THEN 0
    ELSE LET id == CHOOSE i \in ids : TRUE
         IN  FootW(CubeAt(m, id), s) * FootH(CubeAt(m, id), s)
                + FootAreaSum(m, ids \ {id}, s)

\* the sides 64 * 2^k
AtlasSides == { 64, 128, 256, 512, 1024, 2048, 4096 }

\* the smallest side 64 * 2^k whose square is at least 1.5 times the sum of
\* the footprint areas
StartSide(m, s) ==
    LET area == FootAreaSum(m, CubeIds(m), s)
    IN  CHOOSE d \in AtlasSides :
           /\ 2 * d * d >= 3 * area
           /\ \A e \in AtlasSides : 2 * e * e >= 3 * area => d <= e

\* cube p is placed before cube q: it is taller, or as tall and earlier in
\* the input (bone index, then cube index)
PlacedBefore(m, p, q, s) ==
    \/ FootH(CubeAt(m, p), s) > FootH(CubeAt(m, q), s)
    \/ /\ FootH(CubeAt(m, p), s) = FootH(CubeAt(m, q), s)
       /\ (p[1] < q[1] \/ (p[1] = q[1] /\ p[2] < q[2]))

\* the k-th cube in placement order
ItemAt(m, k, s) ==
    CHOOSE id \in CubeIds(m) :
        Cardinality({ q \in CubeIds(m) : PlacedBefore(m, q, id, s) }) = k - 1

\* the greatest footprint height among the first k placed cubes that lie in
\* the row at y
RowMaxHeight(m, k, y, s) ==
    LET hs == { FootH(CubeAt(m, ItemAt(m, j, s)), s) :
                  j \in { i \in 1..k : CubeAt(m, ItemAt(m, i, s)).uv[2] = y } }
    IN  CHOOSE h \in hs : \A g \in hs : g <= h

\* the k-th placed cube goes where the cursor left by the cubes before it
\* says: on the current row if it fits in the width W, else on a new row
PlacedByRule(m, k, W, s) ==
    LET cube == CubeAt(m, ItemAt(m, k, s))
    IN  IF k = 1
        THEN cube.uv = IF FootW(cube, s) <= W THEN <<0, 0>> ELSE <<0, PADDING>>
        ELSE LET prev == CubeAt(m, ItemAt(m, k - 1, s))
                 x == prev.uv[1] + FootW(prev, s) + 2
             IN  IF x + FootW(cube, s) <= W
                 THEN cube.uv = <<x, prev.uv[2]>>
                 ELSE cube.uv = <<0, prev.uv[2]
                                       + RowMaxHeight(m, k - 1, prev.uv[2], s) + 2>>

\* C17: packUVs places the cubes in order of descending footprint height,
\* equal heights in input order (bone index, then cube index); a cube goes on
\* the current row at (x, y) iff x + width <= atlas width, otherwise on a new
\* row at x = 0 with y increased by the previous row's greatest height plus 2;
\* after each placement x advances by width + 2.
C17_ShelfOrder ==
    (phase = "packed" /\ model.type = "ENTITY") =>
        LET s == DensityScale(textureDensity)
        IN  \A k \in 1..Cardinality(CubeIds(model)) :
               PlacedByRule(model, k, StartSide(model, s), s)

\* a packed model in which two cubes of equal footprint height lie on
\* different rows, the earlier one in the input on the upper row, and a taller
\* cube that follows it in the input lies first
C17_Witness ==
    /\ phase = "packed"
    /\ LET s == DensityScale(textureDensity)
       IN  \E p, q, r \in CubeIds(model) :
              /\ PlacedBefore(model, p, q, s) /\ p[1] < q[1]
              /\ FootH(CubeAt(model, p), s) = FootH(CubeAt(model, q), s)
              /\ CubeAt(model, p).uv[2] < CubeAt(model, q).uv[2]
              /\ CubeAt(model, q).uv[1] = 0
              /\ (p[1] < r[1] \/ (p[1] = r[1] /\ p[2] < r[2]))
              /\ FootH(CubeAt(model, r), s) > FootH(CubeAt(model, p), s)
              /\ CubeAt(model, r).uv = <<0, 0>>

\* the atlas height after the first k placements: doubled once for each
\* placed cube whose bottom edge lies below it
RECURSIVE HeightAfter(_, _, _)
HeightAfter(m, k, s) ==
    IF k = 0 THEN StartSide(m, s)
    ELSE LET cube == CubeAt(m, ItemAt(m, k, s))
             h == HeightAfter(m, k - 1, s)
         IN  IF cube.uv[2] + FootH(cube, s) > h THEN 2 * h ELSE h

\* C18: the atlas side packUVs starts from is the smallest 64 * 2^k whose
\* square is at least 1.5 times the sum of the footprint areas (the final side
\* is that side, doubled once for each cube placed below the bottom edge), the
\* final texture_size side is always of the form 64 * 2^k, and a model with no
\* cubes comes back with texture_size [64, 64] and no uv.
C18_AtlasSide ==
    (phase = "packed" /\ model.type = "ENTITY") =>
        LET s == DensityScale(textureDensity)
            n == Cardinality(CubeIds(model))
        IN  /\ model.texture_size[1] \in AtlasSides
            /\ model.texture_size[2] \in AtlasSides
            /\ model.texture_size[1] = HeightAfter(model, n, s)
            /\ model.texture_size[2] = HeightAfter(model, n, s)
            /\ n = 0 => model.texture_size = <<MIN_TEXTURE_SIZE, MIN_TEXTURE_SIZE>>

\* a packed model whose atlas starts from a side above the minimum: a side of
\* 64 is too small for 1.5 times the footprint areas
C18_Witness ==
    /\ phase = "packed"
    /\ CubeIds(model) # {}
    /\ LET s == DensityScale(textureDensity)
       IN  /\ StartSide(model, s) > MIN_TEXTURE_SIZE
           /\ 2 * MIN_TEXTURE_SIZE * MIN_TEXTURE_SIZE
                 < 3 * FootAreaSum(model, CubeIds(model), s)
           /\ model.texture_size[1] = StartSide(model, s)

\* a packed model with no cubes
C18_WitnessEmpty ==
    /\ phase = "packed"
    /\ CubeIds(model) = {}
    /\ model.texture_size = <<MIN_TEXTURE_SIZE, MIN_TEXTURE_SIZE>>

--------------------------------------------------------------------------
(* The rescaling specification: a uv origin inside an atlas is taken by      *)
(* scaleModelUVs from the atlas size A to B and then to C, and from A to C   *)
(* directly.                                                                *)

\* atlas and image sizes <<width, height>>
AtlasSizes == { <<64, 64>>, <<128, 128>>, <<256, 256>>, <<96, 96>>, <<128, 64>> }

\* a model of one cube whose uv is <<u, v>> in an atlas of the given size
PointModel(u, v, size) ==
    [type |-> "ENTITY",
     texture_size |-> size,
     bones |-> << NewBone("root", NoParent, <<0, 0, 0>>,
                    << [NewCube(<<Units(8), Units(8), Units(8)>>) EXCEPT !.uv = <<u, v>>] >>,
                    <<>>) >>]

\* every column u of the atlas, with a row v that varies with u
ScaleInit ==
    /\ \E size \in AtlasSizes :
          \E u \in 0..(size[1] - 1) :
             model = PointModel(u, (5 * u + 3) % size[2], size)
    /\ textureDensity = "16x"
    /\ uvScaleFactor = <<1, 1>>
    /\ textureData = Null
    /\ phase = "input"
    /\ source = Null
    /\ output = Null
    /\ AppIdle

\* scaleModelUVs(model, B) on the input
ScaleFirst ==
    /\ phase = "input"
    /\ \E via \in AtlasSizes :
          /\ model' = scaleModelUVs(model, via[1], via[2])
          /\ output' = [via |-> via, to |-> via, direct |-> Null]
    /\ source' = model
    /\ phase' = "scaled"
    /\ UNCHANGED <<textureDensity, uvScaleFactor, textureData, appVars>>

\* scaleModelUVs(scaled, C) on the result, and scaleModelUVs(input, C)
ScaleSecond ==
    /\ phase = "scaled"
    /\ \E to \in AtlasSizes :
          /\ model' = scaleModelUVs(model, to[1], to[2])
          /\ output' = [via |-> output.via, to |-> to,
                        direct |-> scaleModelUVs(source, to[1], to[2])]
    /\ phase' = "rescaled"
    /\ UNCHANGED <<source, textureDensity, uvScaleFactor, textureData, appVars>>

ScaleNext == ScaleFirst \/ ScaleSecond

ScaleSpec == ScaleInit /\ [][ScaleNext]_vars

Abs(x) == IF x < 0 THEN -x ELSE x

\* the uv of the only cube of a PointModel
PointUV(m) == m.bones[1].cubes[1].uv

\* C12 as stated: rescaling A to B and then B to C gives the uv of rescaling A
\* to C directly up to one pixel per axis, and exactly when B is an integer
\* multiple of A.
C12_ComposeWithinOnePixel ==
    phase = "rescaled" =>
        \A k \in 1..2 :
            /\ Abs(PointUV(model)[k] - PointUV(output.direct)[k]) <= 1
            /\ output.via[k] % source.texture_size[k] = 0
                  => PointUV(model)[k] = PointUV(output.direct)[k]

\* C12 amended: the two results differ by at most 1 + floor(C / 2B) pixels per
\* axis (2B * |difference| <= 2B + C), which is one pixel when C < 2B, and are
\* equal when B is an integer multiple of A.
C12_Compose ==
    phase = "rescaled" =>
        \A k \in 1..2 :
            /\ 2 * output.via[k] * Abs(PointUV(model)[k] - PointUV(output.direct)[k])
                  <= 2 * output.via[k] + output.to[k]
            /\ output.via[k] % source.texture_size[k] = 0
                  => PointUV(model)[k] = PointUV(output.direct)[k]

\* rescaled down and then up by four: the two results are two pixels apart
C12_Witness ==
    /\ phase = "rescaled"
    /\ output.via[1] < source.texture_size[1]
    /\ output.to[1] = 4 * output.via[1]
    /\ Abs(PointUV(model)[1] - PointUV(output.direct)[1]) = 2

--------------------------------------------------------------------------
(* The conversion specification: a bounded bone forest is exported with     *)
(* exportHytaleModel and the node tree imported with convertHytaleToBedrock. *)

MaxBones == 3

BoneNames == <<"root", "pelvis", "head", "arm">>

\* the pivot of the i-th input bone, in ticks: (0,0,0), (2,48,-3), (4,96,-6), ...
PivotOf(i) == <<2 * (i - 1), Units(12) * (i - 1), -3 * (i - 1)>>

\* what a bone of the input holds: nothing; a cube and an attachment; two
\* cubes (one with fractional sizes), a legacy string attachment and an
\* attachment whose name is empty
BoneContents ==
    { [cubes |-> <<>>, attachments |-> <<>>],
      [cubes |-> << [origin |-> <<-16, 0, -16>>, size |-> <<32, 32, 32>>,
                     uv |-> NoUV, pivot |-> NoPivot, rotation |-> NoRotation] >>,
       attachments |-> << [kind |-> "object", name |-> "hand_right",
                           position |-> <<0, 4, -2>>] >>],
      [cubes |-> << [origin |-> <<3, 40, -8>>, size |-> <<2, 6, 2>>,
                     uv |-> <<10, 66>>, pivot |-> NoPivot, rotation |-> NoRotation],
                    [origin |-> <<-1, 0, 5>>, size |-> <<16, 48, 16>>,
                     uv |-> <<0, 0>>, pivot |-> NoPivot, rotation |-> NoRotation] >>,
       attachments |-> << [kind |-> "string", name |-> "ground"],
                          [kind |-> "object", name |-> "",
                           position |-> <<1, 0, 0>>] >>] }

\* parent[i] = 0 for a root, else the index of the parent bone
RECURSIVE ReachesRoot(_, _, _)
ReachesRoot(parent, i, fuel) ==
    IF parent[i] = 0 THEN TRUE
    ELSE IF fuel = 0 THEN FALSE
    ELSE ReachesRoot(parent, parent[i], fuel - 1)

\* the acyclic parent maps on n bones
Forests(n) ==
    { parent \in [1..n -> 0..n] :
        \A i \in 1..n : parent[i] # i /\ ReachesRoot(parent, i, n) }

InputForest(n, parent, contents) ==
    [type |-> "ENTITY",
     texture_size |-> <<MIN_TEXTURE_SIZE, MIN_TEXTURE_SIZE>>,
     bones |-> [i \in 1..n |->
                  NewBone(BoneNames[i],
                          IF parent[i] = 0 THEN NoParent ELSE BoneNames[parent[i]],
                          PivotOf(i), contents[i].cubes, contents[i].attachments)]]

\* the contents of the first two bones are free, bone i + 2 holds what bone i holds
ContentMaps(n) ==
    { contents \in [1..n -> BoneContents] :
        \A i \in 3..n : contents[i] = contents[i - 2] }

InputForests ==
    UNION { { InputForest(n, parent, contents) :
                parent \in Forests(n), contents \in ContentMaps(n) } :
            n \in 1..MaxBones }

ConvInit ==
    /\ model \in InputForests
    /\ textureDensity = "16x"
    /\ uvScaleFactor = <<1, 1>>
    /\ textureData = Null
    /\ phase = "input"
    /\ source = Null
    /\ output = Null
    /\ AppIdle

\* rootNodes = buildHytaleNodeTree(model.bedrockData.bones, undefined, [0,0,0], ...)
ConvExport ==
    /\ phase \in {"input", "imported"}
    /\ output' = exportHytaleModel(model)
    /\ source' = model
    /\ phase' = "exported"
    /\ UNCHANGED <<model, textureDensity, uvScaleFactor, textureData, appVars>>

\* convertHytaleToBedrock(json, filename) on the exported nodes
ConvImport ==
    /\ phase = "exported"
    /\ ~output.overflow
    /\ model' = convertHytaleToBedrock(output.nodes)
    /\ phase' = "imported"
    /\ UNCHANGED <<output, source, textureDensity, uvScaleFactor, textureData, appVars>>

ConvNext == ConvExport \/ ConvImport

ConvSpec == ConvInit /\ [][ConvNext]_vars

--------------------------------------------------------------------------
(* Properties of the conversion, checked under ConvSpec *)

\* cubes agree in origin and size, one for one and in order
SameCubes(cs1, cs2) ==
    /\ Len(cs1) = Len(cs2)
    /\ \A i \in 1..Len(cs1) :
          cs1[i].origin = cs2[i].origin /\ cs1[i].size = cs2[i].size

\* the position of an attachment (a legacy string attachment sits at the pivot)
AttPosition(att) == IF att.kind = "string" THEN <<0, 0, 0>> ELSE att.position

SameAttachments(as1, as2) ==
    /\ Len(as1) = Len(as2)
    /\ \A i \in 1..Len(as1) :
          as1[i].name = as2[i].name /\ AttPosition(as1[i]) = AttPosition(as2[i])

\* as SameAttachments, an attachment with an empty name coming back as "attachment"
SameAttachmentsDefaulted(as1, as2) ==
    /\ Len(as1) = Len(as2)
    /\ \A i \in 1..Len(as1) :
          /\ as2[i].name = (IF as1[i].name = "" THEN "attachment" ELSE as1[i].name)
          /\ AttPosition(as1[i]) = AttPosition(as2[i])

UniqueBoneNames(m) ==
    \A i, j \in 1..Len(m.bones) : m.bones[i].name = m.bones[j].name => i = j

\* C4 as stated: after export and import every original bone has a bone with
\* the same name, parent and pivot, cubes with the same origin and size and
\* attachments with the same name and position.
C4_RoundTripExact ==
    (phase = "imported" /\ UniqueBoneNames(source)) =>
        \A i \in 1..Len(source.bones) :
            \E j \in 1..Len(model.bones) :
                /\ model.bones[j].name = source.bones[i].name
                /\ model.bones[j].parent = source.bones[i].parent
                /\ model.bones[j].pivot = source.bones[i].pivot
                /\ SameCubes(source.bones[i].cubes, model.bones[j].cubes)
                /\ SameAttachments(source.bones[i].attachments,
                                   model.bones[j].attachments)

\* C4 amended: as C4, for non-empty bone names and coordinates on which the
\* arithmetic is exact, except that an attachment whose name is empty comes
\* back named "attachment"; and the import adds no bone.
C4_RoundTrip ==
    (phase = "imported" /\ UniqueBoneNames(source)) =>
        /\ Len(model.bones) = Len(source.bones)
        /\ \A i \in 1..Len(source.bones) :
              \E j \in 1..Len(model.bones) :
                  /\ model.bones[j].name = source.bones[i].name
                  /\ model.bones[j].parent = source.bones[i].parent
                  /\ model.bones[j].pivot = source.bones[i].pivot
                  /\ SameCubes(source.bones[i].cubes, model.bones[j].cubes)
                  /\ SameAttachmentsDefaulted(source.bones[i].attachments,
                                              model.bones[j].attachments)

\* an imported chain of three bones, a child listed before its parent, with
\* cubes away from the pivot and an attachment with an empty name
C4_Witness ==
    /\ phase = "imported"
    /\ \E i, j, k \in 1..Len(source.bones) :
          /\ source.bones[i].parent = source.bones[j].name
          /\ source.bones[j].parent = source.bones[k].name
          /\ i < j
          /\ Len(source.bones[i].cubes) = 2
          /\ \E a \in 1..Len(source.bones[i].attachments) :
                source.bones[i].attachments[a].name = ""

--------------------------------------------------------------------------
(* Viewer3D: CustomBoxMesh *)

\* The six rectangles CustomBoxMesh hands to setFaceUV for a cube that has a
\* uv, in the order of the calls; uvScale is the number uvScale[1] / uvScale[2].
\* Math.floor(u) = u: uv are whole pixels.
CustomBoxMesh(cube, uvScale) ==
    LET ru == cube.uv[1]
        rv == cube.uv[2]
        rw == CeilRatio(cube.size[1], uvScale[1], uvScale[2])
        rh == CeilRatio(cube.size[2], uvScale[1], uvScale[2])
        rd == CeilRatio(cube.size[3], uvScale[1], uvScale[2])
    IN  << Rect("right",  ru,                rv + rd, rd, rh),
           Rect("left",   ru + rd + rw,      rv + rd, rd, rh),
           Rect("top",    ru + rd,           rv,      rw, rd),
           Rect("bottom", ru + rd + rw,      rv,      rw, rd),
           Rect("front",  ru + rd,           rv + rd, rw, rh),
           Rect("back",   ru + rd + rw + rd, rv + rd, rw, rh) >>

--------------------------------------------------------------------------
(* constants.ts and the models that reach the App from outside *)

Cube(origin, size) ==
    [origin |-> origin, size |-> size, uv |-> NoUV, pivot |-> NoPivot,
     rotation |-> NoRotation]

Attachment(name) == [kind |-> "object", name |-> name, position |-> <<0, 0, 0>>]

INITIAL_MODEL ==
    [type |-> "ENTITY",
     texture_size |-> <<64, 64>>,
     bones |-> << NewBone("root", NoParent, <<0, 0, 0>>,
                    << Cube(<<Units(-4), 0, Units(-4)>>, <<Units(8), Units(8), Units(8)>>) >>,
                    << Attachment("ground") >>) >>]

\* The legs' pivot x (-1.9, 1.9) and origin x (-3.9, -0.1) are not whole ticks;
\* they are written here to the nearest tick.  The App reads no position.
STEVE_MODEL ==
    [type |-> "ENTITY",
     texture_size |-> <<64, 64>>,
     bones |-> <<
        NewBone("root", NoParent, <<0, 0, 0>>, <<>>, << Attachment("ground") >>),
        NewBone("pelvis", "root", <<0, Units(12), 0>>,
            << Cube(<<Units(-4), Units(12), Units(-2)>>, <<Units(8), Units(12), Units(4)>>) >>,
            <<>>),
        NewBone("head", "pelvis", <<0, Units(24), 0>>,
            << Cube(<<Units(-4), Units(24), Units(-4)>>, <<Units(8), Units(8), Units(8)>>) >>,
            << Attachment("head_top"), Attachment("eye_left"),
               Attachment("eye_right"), Attachment("hat_layer") >>),
        NewBone("arm_right", "pelvis", <<Units(-5), Units(22), 0>>,
            << Cube(<<Units(-8), Units(12), Units(-2)>>, <<Units(4), Units(12), Units(4)>>) >>,
            << Attachment("hand_right") >>),
        NewBone("arm_left", "pelvis", <<Units(5), Units(22), 0>>,
            << Cube(<<Units(4), Units(12), Units(-2)>>, <<Units(4), Units(12), Units(4)>>) >>,
            << Attachment("hand_left") >>),
        NewBone("leg_right", "pelvis", <<-8, Units(12), 0>>,
            << Cube(<<-16, 0, Units(-2)>>, <<Units(4), Units(12), Units(4)>>) >>,
            <<>>),
        NewBone("leg_left", "pelvis", <<8, Units(12), 0>>,
            << Cube(<<0, 0, Units(-2)>>, <<Units(4), Units(12), Units(4)>>) >>,
            <<>>) >>]

\* models the AI service returns (generateModelFromPrompt, autoRigModel): a
\* two-bone prop, one of its cubes with fractional sizes
GeneratedModels ==
    { [type |-> "ENTITY",
       texture_size |-> <<64, 64>>,
       bones |-> << NewBone("root", NoParent, <<0, 0, 0>>,
                      << Cube(<<Units(-6), 0, Units(-6)>>,
                              <<Units(12), Units(4), Units(12)>>) >>,
                      <<>>),
                    NewBone("post", "root", <<0, Units(4), 0>>,
                      << Cube(<<-1, Units(4), -1>>, <<2, 6, 2>>) >>,
                      <<>>) >>] }

\* models parseModelFile returns: a Hytale file read by convertHytaleToBedrock
\* (uv taken from the file's textureLayout, texture_size [64, 64])
ImportedModels ==
    { [type |-> "ENTITY",
       texture_size |-> <<64, 64>>,
       bones |-> << [rotation |-> <<Deg0, Deg0, Deg0>>, name |-> "root",
                     parent |-> NoParent, pivot |-> <<0, 0, 0>>,
                     attachments |-> <<>>,
                     cubes |->
                      << [origin |-> <<Units(-4), 0, Units(-4)>>,
                          size |-> <<Units(8), Units(8), Units(8)>>,
                          uv |-> <<0, 0>>, pivot |-> <<0, Units(4), 0>>,
                          rotation |-> <<Deg0, Deg0, Deg0>>],
                         [origin |-> <<Units(-2), Units(8), Units(-2)>>,
                          size |-> <<Units(4), Units(4), Units(4)>>,
                          uv |-> <<0, 20>>, pivot |-> <<0, Units(10), 0>>,
                          rotation |-> <<Deg0, Deg0, Deg0>>] >>] >>] }

\* naturalWidth x naturalHeight of the images the AI returns or the user uploads
TextureImages == { <<64, 64>>, <<128, 128>>, <<128, 64>> }

--------------------------------------------------------------------------
(* App.tsx: the state of the App component and its handlers *)

\* requests in flight at once, and handler invocations in one run
MaxInFlight == 2
MaxOperations == 3

RECURSIVE GCD(_, _)
GCD(a, b) == IF b = 0 THEN a ELSE GCD(b, a % b)

\* the number num / den in lowest terms
Fraction(num, den) == <<num \div GCD(num, den), den \div GCD(num, den)>>

RemoveAt(seq, i) == SubSeq(seq, 1, i - 1) \o SubSeq(seq, i + 1, Len(seq))

\* A handler that is waiting: kind, the textureDensity and the model of the
\* render it was called in (its closure), and for a texture request the
\* workingModel and packedW it computed before waiting.
Request(kind, density, captured, workingModel, packedW) ==
    [kind |-> kind, density |-> density, captured |-> captured,
     workingModel |-> workingModel, packedW |-> packedW]

CanStart ==
    /\ Len(requests) < MaxInFlight
    /\ operations < MaxOperations

\* useHistory(INITIAL_MODEL) and the useState initial values
Init ==
    /\ model = INITIAL_MODEL
    /\ textureDensity = "16x"
    /\ uvScaleFactor = <<1, 1>>
    /\ textureData = Null
    /\ AppIdle
    /\ phase = "app"
    /\ source = Null
    /\ output = Null

\* handleGenerate up to the await.  The chat form returns when isGenerating;
\* handleEnhanceDetail and handleAddPrimitive call handleGenerate unguarded.
GenerateStart ==
    /\ CanStart
    /\ \E fromChat \in BOOLEAN : fromChat => ~isGenerating
    /\ isGenerating' = TRUE
    /\ requests' = Append(requests, Request("generate", textureDensity, model, Null, 0))
    /\ operations' = operations + 1
    /\ UNCHANGED <<model, textureDensity, uvScaleFactor, textureData,
                   isGeneratingTexture, phase, source, output>>

\* handleGenerate after the await: a model came back and is packed at the
\* density of the closure, or none came back (null, or the call threw)
GenerateComplete ==
    \E i \in 1..Len(requests) :
        /\ requests[i].kind = "generate"
        /\ \/ \E newModel \in GeneratedModels :
                /\ model' = packUVs(newModel, requests[i].density)
                /\ uvScaleFactor' = <<1, 1>>
           \/ UNCHANGED <<model, uvScaleFactor>>
        /\ isGenerating' = FALSE
        /\ requests' = RemoveAt(requests, i)
        /\ UNCHANGED <<textureDensity, textureData, isGeneratingTexture,
                       operations, phase, source, output>>

\* handleAutoRig up to the await
AutoRigStart ==
    /\ CanStart
    /\ isGenerating' = TRUE
    /\ requests' = Append(requests, Request("autorig", textureDensity, model, Null, 0))
    /\ operations' = operations + 1
    /\ UNCHANGED <<model, textureDensity, uvScaleFactor, textureData,
                   isGeneratingTexture, phase, source, output>>

\* handleAutoRig after the await: the rigged model is packed, or the call threw
AutoRigComplete ==
    \E i \in 1..Len(requests) :
        /\ requests[i].kind = "autorig"
        /\ \/ \E riggedModel \in GeneratedModels :
                model' = packUVs(riggedModel, requests[i].density)
           \/ UNCHANGED model
        /\ isGenerating' = FALSE
        /\ requests' = RemoveAt(requests, i)
        /\ UNCHANGED <<textureDensity, uvScaleFactor, textureData,
                       isGeneratingTexture, operations, phase, source, output>>

\* workingModel.bedrockData?.texture_size[0] || 64
PackedW(workingModel) ==
    IF workingModel.texture_size[1] = 0 THEN 64 ELSE workingModel.texture_size[1]

\* densityBase * (img.naturalWidth / packedW)
ViewerScale(density, imageWidth, packedW) ==
    Fraction(DensityScale(density) * imageWidth, packedW)

\* handleGenerateTexture up to the await (the button is disabled while
\* isGeneratingTexture; a prompt or an image is at hand).  packUVs writes the uv
\* of the state's own cubes; workingModel is the copy it returns.
GenerateTextureStart ==
    /\ CanStart
    /\ ~isGeneratingTexture
    /\ isGeneratingTexture' = TRUE
    /\ LET workingModel == packUVs(model, textureDensity)
       IN  requests' = Append(requests,
               Request("texture", textureDensity, model, workingModel,
                       PackedW(workingModel)))
    /\ model' = packUVsArgument(model, textureDensity)
    /\ operations' = operations + 1
    /\ UNCHANGED <<textureDensity, uvScaleFactor, textureData, isGenerating,
                   phase, source, output>>

\* generateTextureFromPrompt threw: catch and finally
GenerateTextureFail ==
    \E i \in 1..Len(requests) :
        /\ requests[i].kind = "texture"
        /\ requests' = RemoveAt(requests, i)
        /\ isGeneratingTexture' = FALSE
        /\ UNCHANGED <<model, textureDensity, uvScaleFactor, textureData,
                       isGenerating, operations, phase, source, output>>

\* generateTextureFromPrompt returned: img.src is set and finally runs; the
\* image has yet to load
GenerateTextureReturn ==
    \E i \in 1..Len(requests) :
        /\ requests[i].kind = "texture"
        /\ requests' = [requests EXCEPT ![i].kind = "textureImage"]
        /\ isGeneratingTexture' = FALSE
        /\ UNCHANGED <<model, textureDensity, uvScaleFactor, textureData,
                       isGenerating, operations, phase, source, output>>

\* img.onload of handleGenerateTexture
GenerateTextureLoad ==
    \E i \in 1..Len(requests), img \in TextureImages :
        /\ requests[i].kind = "textureImage"
        /\ model' = scaleModelUVs(requests[i].workingModel, img[1], img[2])
        /\ uvScaleFactor' = ViewerScale(requests[i].density, img[1],
                                        requests[i].packedW)
        /\ textureData' = img
        /\ requests' = RemoveAt(requests, i)
        /\ UNCHANGED <<textureDensity, isGenerating, isGeneratingTexture,
                       operations, phase, source, output>>

\* handleUploadTexture: img.src is set, nothing else happens until onload
UploadTextureStart ==
    /\ CanStart
    /\ requests' = Append(requests, Request("upload", textureDensity, model, Null, 0))
    /\ operations' = operations + 1
    /\ UNCHANGED <<model, textureDensity, uvScaleFactor, textureData,
                   isGenerating, isGeneratingTexture, phase, source, output>>

\* img.onload of handleUploadTexture: packs the model of its closure
UploadTextureLoad ==
    \E i \in 1..Len(requests), img \in TextureImages :
        /\ requests[i].kind = "upload"
        /\ LET workingModel == packUVs(requests[i].captured, requests[i].density)
           IN  /\ model' = scaleModelUVs(workingModel, img[1], img[2])
               /\ uvScaleFactor' = ViewerScale(requests[i].density, img[1],
                                               PackedW(workingModel))
        /\ textureData' = img
        /\ requests' = RemoveAt(requests, i)
        /\ UNCHANGED <<textureDensity, isGenerating, isGeneratingTexture,
                       operations, phase, source, output>>

\* handleDeleteBone(index): newBones.splice(index, 1); an index past the end
\* removes nothing
DeleteBone ==
    /\ operations < MaxOperations
    /\ model.type = "ENTITY"
    /\ \E index \in 0..Len(model.bones) :
          model' = [model EXCEPT !.bones = RemoveAt(model.bones, index + 1)]
    /\ operations' = operations + 1
    /\ UNCHANGED <<textureDensity, uvScaleFactor, textureData, requests,
                   isGenerating, isGeneratingTexture, phase, source, output>>

\* the density buttons of the sidebar: setTextureDensity(d)
SetTextureDensity ==
    /\ operations < MaxOperations
    /\ \E d \in Densities \ {textureDensity} : textureDensity' = d
    /\ operations' = operations + 1
    /\ UNCHANGED <<model, uvScaleFactor, textureData, requests,
                   isGenerating, isGeneratingTexture, phase, source, output>>

\* handleLoadPlayerTemplate
LoadPlayerTemplate ==
    /\ operations < MaxOperations
    /\ model' = packUVs(STEVE_MODEL, textureDensity)
    /\ uvScaleFactor' = <<1, 1>>
    /\ operations' = operations + 1
    /\ UNCHANGED <<textureDensity, textureData, requests,
                   isGenerating, isGeneratingTexture, phase, source, output>>

\* handleImportFile when parseModelFile returns a model (nothing is read from
\* the closure, so the await is not a separate step)
ImportFile ==
    /\ operations < MaxOperations
    /\ \E newModel \in ImportedModels : model' = newModel
    /\ operations' = operations + 1
    /\ UNCHANGED <<textureDensity, uvScaleFactor, textureData, requests,
                   isGenerating, isGeneratingTexture, phase, source, output>>

\* onClearTexture
ClearTexture ==
    /\ textureData # Null
    /\ textureData' = Null
    /\ UNCHANGED <<model, textureDensity, uvScaleFactor, requests,
                   isGenerating, isGeneratingTexture, operations, phase,
                   source, output>>

Next ==
    \/ GenerateStart
    \/ GenerateComplete
    \/ AutoRigStart
    \/ AutoRigComplete
    \/ GenerateTextureStart
    \/ GenerateTextureFail
    \/ GenerateTextureReturn
    \/ GenerateTextureLoad
    \/ UploadTextureStart
    \/ UploadTextureLoad
    \/ DeleteBone
    \/ SetTextureDensity
    \/ LoadPlayerTemplate
    \/ ImportFile
    \/ ClearTexture

Spec == Init /\ [][Next]_vars

--------------------------------------------------------------------------
(* Properties of the App, checked under Spec *)

\* the layout of m is the one packUVs gives its cubes at density d, or that
\* layout rescaled by scaleModelUVs to m's texture_size
LayoutIs(m, d) ==
    LET packed == packUVs(m, d)
    IN  \/ m = packed
        \/ m = scaleModelUVs(packed, m.texture_size[1], m.texture_size[2])

\* C5: in every state of the App after the initial model has been replaced or
\* edited, the uv of the cubes and texture_size of an ENTITY model are what
\* packUVs produces for the current cubes at the current density, or that
\* layout rescaled by scaleModelUVs.
C5_LayoutCurrent ==
    (model.type = "ENTITY" /\ model # INITIAL_MODEL) =>
        LayoutIs(model, textureDensity)

\* the rectangles the viewer samples for every cube of m cover the same part
\* of the texture as the rectangles drawTextureLayout draws for the cube in the
\* atlas packed at density d
ViewerMatches(m, d, uvScale) ==
    LET packed == packUVs(m, d)
    IN  \A b \in 1..Len(m.bones) :
            \A c \in 1..Len(m.bones[b].cubes) :
                LET seen == CustomBoxMesh(m.bones[b].cubes[c], uvScale)
                    drawn == DrawCube(packed.bones[b].cubes[c], DensityScale(d))
                IN  \A i, j \in 1..6 :
                        seen[i].face = drawn[j].face =>
                            /\ seen[i].x * packed.texture_size[1]
                                  = drawn[j].x * m.texture_size[1]
                            /\ seen[i].w * packed.texture_size[1]
                                  = drawn[j].w * m.texture_size[1]
                            /\ seen[i].y * packed.texture_size[2]
                                  = drawn[j].y * m.texture_size[2]
                            /\ seen[i].h * packed.texture_size[2]
                                  = drawn[j].h * m.texture_size[2]

\* C6: whenever a texture is displayed on an ENTITY model whose layout is a
\* packUVs layout (rescaled or not), the six rectangles CustomBoxMesh computes
\* for each cube from cube.uv, cube.size and uvScale are the rectangles packUVs
\* reserved and drawTextureLayout drew for it at a density the model was packed
\* with.
C6_ViewerSamplesLayout ==
    (/\ textureData # Null
     /\ model.type = "ENTITY"
     /\ \E d \in Densities : LayoutIs(model, d)) =>
        \E d \in Densities :
            LayoutIs(model, d) /\ ViewerMatches(model, d, uvScaleFactor)

--------------------------------------------------------------------------
(* The malformed-forest specification: bone lists whose parent references    *)
(* may name no bone or form a cycle, exported and imported again.            *)

\* the name parent index p stands for; MaxBones + 1 names no bone
ParentName(p) ==
    IF p = 0 THEN NoParent
    ELSE IF p > MaxBones THEN "ghost"
    ELSE BoneNames[p]

\* n bones with any parent references: roots, bones, themselves, or no bone
AnyForest(n, parent) ==
    [type |-> "ENTITY",
     texture_size |-> <<MIN_TEXTURE_SIZE, MIN_TEXTURE_SIZE>>,
     bones |-> [i \in 1..n |->
                  NewBone(BoneNames[i], ParentName(parent[i]), PivotOf(i),
                          << Cube(<<Units(-4), 0, Units(-4)>>,
                                  <<Units(8), Units(8), Units(8)>>) >>,
                          << Attachment("hand_right") >>)]]

AnyForests ==
    UNION { { AnyForest(n, parent) :
                parent \in [1..n -> (0..n) \cup {MaxBones + 1}] } :
            n \in 1..MaxBones }

MalformedInit ==
    /\ model \in AnyForests
    /\ textureDensity = "16x"
    /\ uvScaleFactor = <<1, 1>>
    /\ textureData = Null
    /\ phase = "input"
    /\ source = Null
    /\ output = Null
    /\ AppIdle

MalformedSpec == MalformedInit /\ [][ConvNext]_vars

\* where the parent chain of the bone called name ends: at a root, at a name
\* that is no bone ("dangling") or nowhere ("cycle")
RECURSIVE ChainEnd(_, _, _)
ChainEnd(bones, name, fuel) ==
    IF name = NoParent THEN "root"
    ELSE IF getBone(bones, name) = 0 THEN "dangling"
    ELSE IF fuel = 0 THEN "cycle"
    ELSE ChainEnd(bones, bones[getBone(bones, name)].parent, fuel - 1)

\* the bones whose parent names no bone or lies on a cycle of parents
OffendingBones(m) ==
    { i \in 1..Len(m.bones) :
        /\ m.bones[i].parent # NoParent
        /\ \/ getBone(m.bones, m.bones[i].parent) = 0
           \/ ChainEnd(m.bones, m.bones[i].name, Len(m.bones)) = "cycle" }

\* the names of all nodes of a node list
RECURSIVE NodeNames(_)
NodeNames(nodes) ==
    IF nodes = <<>> THEN {}
    ELSE {Head(nodes).name} \cup NodeNames(Head(nodes).children)
                            \cup NodeNames(Tail(nodes))

\* C13: when a bone's parent names no bone, or the parent references form a
\* cycle, the export fails with an error and yields no node tree.
C13_MalformedRejected ==
    (phase = "exported" /\ OffendingBones(source) # {}) =>
        output.overflow /\ output.nodes = <<>>

\* what the export does instead: it returns without error a tree that holds
\* the bones reachable from the roots and none of the others
C13_SilentlyOmitted ==
    (phase = "exported" /\ OffendingBones(source) # {}) =>
        /\ ~output.overflow
        /\ \A i \in 1..Len(source.bones) :
              (source.bones[i].name \in NodeNames(output.nodes))
                 <=> ChainEnd(source.bones, source.bones[i].name,
                              Len(source.bones)) = "root"

--------------------------------------------------------------------------
(* The degenerate-geometry specification: packUVs on models some of whose    *)
(* cubes have a zero or a negative size component.                           *)

\* a cube of no width, a cube of negative width, and two regular cubes
DegenerateSizes ==
    { <<0, Units(8), Units(8)>>,
      <<Units(-4), Units(8), Units(8)>>,
      <<Units(8), Units(8), Units(8)>>,
      <<Units(4), Units(12), Units(4)>> }

DegenerateInit ==
    /\ model \in { InputModel(sizes) :
                     sizes \in UNION { [1..n -> DegenerateSizes] : n \in 1..MaxCubes } }
    /\ textureDensity \in Densities
    /\ uvScaleFactor = <<1, 1>>
    /\ textureData = Null
    /\ phase = "input"
    /\ source = Null
    /\ output = Null
    /\ AppIdle

DegenerateSpec == DegenerateInit /\ [][LibPack]_vars

IsDegenerate(cube) == \E k \in 1..3 : cube.size[k] <= 0

\* the cubes of a model as <<bone index, cube index>>, whatever their number
AllCubeIds(m) ==
    UNION { { <<b, c>> : c \in 1..Len(m.bones[b].cubes) } : b \in 1..Len(m.bones) }

\* C14: packUVs leaves a cube with a zero or negative size component out of
\* the packing: it receives no uv.
C14_DegenerateExcluded ==
    phase = "packed" =>
        \A id \in AllCubeIds(model) :
            IsDegenerate(CubeAt(model, id)) => CubeAt(model, id).uv = NoUV

\* what packUVs does instead: every cube, degenerate or not, is given a uv and
\* takes part in the shelf packing with the footprint getBoxUVSize computes
C14_DegeneratePacked ==
    phase = "packed" =>
        \A id \in AllCubeIds(model) : CubeAt(model, id).uv # NoUV

--------------------------------------------------------------------------
(* The rotation specification: the chain root -> pelvis -> head, every bone  *)
(* and cube rotated, exported and imported again.                            *)

\* the three angles of r in another order
Shift(r) == <<r[2], r[3], r[1]>>

\* root, pelvis and head with pivots (0,0,0), (0,12,0), (0,24,0); the bones
\* are rotated by r and by r with its angles shifted, the cubes likewise
RotatedChain(r) ==
    LET bone(name, parent, y, rot, cubeRot) ==
            [name |-> name, parent |-> parent, pivot |-> <<0, Units(y), 0>>,
             rotation |-> rot,
             cubes |-> << [origin |-> <<Units(-4), Units(y), Units(-2)>>,
                           size |-> <<Units(8), Units(12), Units(4)>>,
                           uv |-> NoUV, pivot |-> NoPivot,
                           rotation |-> cubeRot] >>,
             attachments |-> << [kind |-> "object", name |-> "slot_" \o name,
                                 position |-> <<Units(1), Units(y) \div 2, -2>>] >>]
    IN  [type |-> "ENTITY",
         texture_size |-> <<MIN_TEXTURE_SIZE, MIN_TEXTURE_SIZE>>,
         bones |-> << bone("root", NoParent, 0, r, Shift(r)),
                      bone("pelvis", "root", 12, Shift(r), Shift(Shift(r))),
                      bone("head", "pelvis", 24, Shift(Shift(r)), r) >>]

\* the multiples of 90 degrees
RightAngles == { a \in Angles : a[1] = 0 \/ a[2] = 0 }

\* Rotations by any three angles none of which is 90 or -90 degrees, and by
\* any three multiples of 90 degrees (in gimbal lock the angles that come back
\* are sums of the angles put in, which stay on the circle of radius 5 only for
\* multiples of 90 degrees).
InputRotations ==
    { r \in Angles \X Angles \X Angles :
        \/ \A k \in 1..3 : r[k][1] # 0
        \/ \A k \in 1..3 : r[k] \in RightAngles }

RotationInit ==
    /\ model \in { RotatedChain(r) : r \in InputRotations }
    /\ textureDensity = "16x"
    /\ uvScaleFactor = <<1, 1>>
    /\ textureData = Null
    /\ phase = "input"
    /\ source = Null
    /\ output = Null
    /\ AppIdle

RotationSpec == RotationInit /\ [][ConvNext]_vars

\* a rotation is degenerate when its y angle is 90 or -90 degrees
NonDegenerate(rot) == rot[2][1] # 0

\* the angle plus 180 degrees, and 180 degrees minus the angle
Opposite(a) == <<-a[1], -a[2]>>
Supplement(a) == <<-a[1], a[2]>>

\* the Euler angles with y in [-90, 90] that turn the same way as rot
Principal(rot) ==
    IF rot[2][1] >= 0 THEN rot
    ELSE <<Opposite(rot[1]), Supplement(rot[2]), Opposite(rot[3])>>

\* the rotated things of a model: its bones and its cubes, in order
Rotated(m) ==
    [i \in 1..(2 * Len(m.bones)) |->
        IF i <= Len(m.bones) THEN m.bones[i]
        ELSE m.bones[i - Len(m.bones)].cubes[1]]

\* C16 as stated: after export and import of the chain, every bone and cube
\* with a non-degenerate rotation has its rotation angles back, every bone its
\* pivot and every cube its origin.
C16_RotationRoundTrip ==
    phase = "imported" =>
        /\ Len(model.bones) = Len(source.bones)
        /\ \A b \in 1..Len(source.bones) :
              /\ model.bones[b].pivot = source.bones[b].pivot
              /\ model.bones[b].cubes[1].origin = source.bones[b].cubes[1].origin
        /\ \A i \in 1..(2 * Len(source.bones)) :
              NonDegenerate(Rotated(source)[i].rotation) =>
                 Rotated(model)[i].rotation = Rotated(source)[i].rotation

\* C16 amended: pivots and origins come back; a non-degenerate rotation comes
\* back as the Euler angles with y in [-90, 90] of the same orientation: itself
\* when y is within (-90, 90), else (x + 180, 180 - y, z + 180).
C16_RotationRoundTripPrincipal ==
    phase = "imported" =>
        /\ Len(model.bones) = Len(source.bones)
        /\ \A b \in 1..Len(source.bones) :
              /\ model.bones[b].pivot = source.bones[b].pivot
              /\ model.bones[b].cubes[1].origin = source.bones[b].cubes[1].origin
        /\ \A i \in 1..(2 * Len(source.bones)) :
              NonDegenerate(Rotated(source)[i].rotation) =>
                 /\ Rotated(model)[i].rotation = Principal(Rotated(source)[i].rotation)
                 /\ eulerToQuaternion(Rotated(model)[i].rotation)
                       = eulerToQuaternion(Rotated(source)[i].rotation)

\* every node of a node list with the name of the node it hangs under
RECURSIVE NodeEntries(_, _)
NodeEntries(nodes, parentName) ==
    IF nodes = <<>> THEN {}
    ELSE {[node |-> Head(nodes), parent |-> parentName]}
            \cup NodeEntries(Head(nodes).children, Head(nodes).name)
            \cup NodeEntries(Tail(nodes), parentName)

\* the pivot of the bone called name; the origin for no name
PivotNamed(m, name) ==
    IF name = NoParent THEN <<0, 0, 0>>
    ELSE (CHOOSE b \in { m.bones[i] : i \in 1..Len(m.bones) } : b.name = name).pivot

\* node is the node of the bone: at pivot - parent pivot, its first children
\* the cubes at centre - pivot, then the attachments at their own positions
IsNodeOfBone(node, bone, parentPivot) ==
    LET nC == Len(bone.cubes)
        nA == Len(bone.attachments)
    IN  /\ node.name = bone.name
        /\ node.shape.type = "none" /\ ~node.shape.isPiece
        /\ \A k \in 1..3 : node.position[k] = bone.pivot[k] - parentPivot[k]
        /\ Len(node.children) >= nC + nA
        /\ \A c \in 1..nC :
              /\ node.children[c].shape.type = "box"
              /\ \A k \in 1..3 :
                    2 * node.children[c].position[k]
                       = 2 * bone.cubes[c].origin[k] + bone.cubes[c].size[k]
                            - 2 * bone.pivot[k]
        /\ \A a \in 1..nA :
              /\ node.children[nC + a].shape.isPiece
              /\ node.children[nC + a].position = AttPosition(bone.attachments[a])

\* C19: in the tree built by buildHytaleNodeTree each bone node's position is
\* the bone's pivot minus its parent's pivot (the pivot itself for a root),
\* each cube node's position the cube centre (origin + size/2) minus the
\* bone's pivot, each attachment node's position the attachment's stored
\* position; in the chain root -> pelvis -> head with pivots (0,0,0), (0,12,0),
\* (0,24,0) pelvis and head are both at (0,12,0), whatever the rotations.
C19_NodePositions ==
    (phase = "exported" /\ ~output.overflow) =>
        LET entries == NodeEntries(output.nodes, NoParent)
        IN  /\ \A b \in 1..Len(source.bones) :
                  \E e \in entries :
                      /\ e.parent = source.bones[b].parent
                      /\ IsNodeOfBone(e.node, source.bones[b],
                                      PivotNamed(source, source.bones[b].parent))
            /\ (/\ Len(source.bones) = 3
                /\ \A i \in 1..3 :
                      source.bones[i].pivot = <<0, Units(12) * (i - 1), 0>>
                /\ source.bones[2].parent = source.bones[1].name
                /\ source.bones[3].parent = source.bones[2].name)
               => \A e \in entries :
                     e.node.name \in {source.bones[2].name, source.bones[3].name}
                        => e.node.position = <<0, Units(12), 0>>

\* the exported chain root -> pelvis -> head, the head turned about all three
\* axes, its node at (0,12,0) under the pelvis node with its cube and its
\* attachment
C19_Witness ==
    /\ phase = "exported"
    /\ source.bones[3].name = "head" /\ source.bones[3].parent = "pelvis"
    /\ source.bones[3].pivot = <<0, Units(24), 0>>
    /\ source.bones[3].rotation = << <<4, 3>>, <<-3, 4>>, <<3, -4>> >>
    /\ \E e \in NodeEntries(output.nodes, NoParent) :
          /\ e.node.name = "head" /\ e.parent = "pelvis"
          /\ e.node.position = <<0, Units(12), 0>>
          /\ e.node.orientation # IdentityQuaternion
          /\ Len(e.node.children) = 2
          /\ e.node.children[1].position = <<0, Units(6), 0>>
          /\ e.node.children[2].position = <<Units(1), Units(12), -2>>

\* the chain imported again where the head turns about all three axes by
\* angles that are no multiple of 90 degrees, y beyond 90 degrees
C16_Witness ==
    /\ phase = "imported"
    /\ source.bones[3].parent = "pelvis"
    /\ source.bones[2].parent = "root"
    /\ source.bones[3].rotation = << <<4, 3>>, <<-3, 4>>, <<3, -4>> >>
    /\ model.bones[3].rotation = << <<-4, -3>>, <<3, 4>>, <<-3, 4>> >>

--------------------------------------------------------------------------
(* The import specification: convertHytaleToBedrock on node trees of a file  *)
(* in which several group nodes may carry the same name.                     *)

\* the names the group nodes of the input files are drawn from
GroupNames == {"arm", "leg", "hand"}

GroupNode(id, name, position, children) ==
    [id |-> id, name |-> name, children |-> children, position |-> position,
     orientation |-> IdentityQuaternion, shape |-> GroupShape(FALSE)]

BoxNode(id, name, position, size) ==
    [id |-> id, name |-> name, children |-> <<>>, position |-> position,
     orientation |-> IdentityQuaternion,
     shape |-> [type |-> "box", offset |-> <<0, 0, 0>>, isPiece |-> FALSE,
                size |-> size, textureLayout |-> <<>>]]

PieceNode(id, name, position) ==
    [id |-> id, name |-> name, children |-> <<>>, position |-> position,
     orientation |-> IdentityQuaternion, shape |-> GroupShape(TRUE)]

\* a file with two top-level groups, the first holding a third group; every
\* group has a box and an attachment marker of its own; with rootBox the file
\* has a top-level box node as well
InputTree(n1, n2, n3, p3, rootBox) ==
    << GroupNode(1, n1, <<0, Units(12), 0>>,
         << BoxNode(2, "box_a", <<0, Units(4), 0>>, <<Units(8), Units(8), Units(8)>>),
            PieceNode(3, "slot_a", <<Units(1), 0, 0>>),
            GroupNode(4, n2, <<Units(4), 0, 0>>,
              << BoxNode(5, "box_b", <<0, Units(2), 0>>,
                         <<Units(4), Units(4), Units(4)>>),
                 PieceNode(6, "slot_b", <<0, Units(2), 0>>) >>) >>),
       GroupNode(7, n3, p3,
         << BoxNode(8, "box_c", <<0, Units(1), 0>>, <<Units(2), Units(2), Units(2)>>),
            PieceNode(9, "slot_c", <<0, 0, Units(3)>>) >>) >>
    \o (IF rootBox
        THEN << BoxNode(10, "base", <<0, 0, 0>>, <<Units(16), Units(2), Units(16)>>) >>
        ELSE <<>>)

\* a file with one group whose box has children of its own (a box and, with
\* deep, a group holding a box) and whose attachment marker has a group child
NestedTree(n1, deep, rootBox) ==
    << GroupNode(1, n1, <<0, Units(12), 0>>,
         << [BoxNode(2, "box_a", <<0, Units(4), 0>>, <<Units(8), Units(8), Units(8)>>)
               EXCEPT !.children =
                 << BoxNode(3, "box_inner", <<0, Units(1), 0>>,
                            <<Units(2), Units(2), Units(2)>>) >>
                 \o (IF deep
                     THEN << GroupNode(4, "joint", <<0, Units(2), 0>>,
                               << BoxNode(5, "box_deep", <<0, 0, 0>>,
                                          <<Units(4), Units(4), Units(4)>>) >>) >>
                     ELSE <<>>)],
            [PieceNode(6, "slot_a", <<Units(1), 0, 0>>)
               EXCEPT !.children =
                 << GroupNode(7, "grip", <<0, Units(1), 0>>, <<>>) >>] >>) >>
    \o (IF rootBox
        THEN << [BoxNode(8, "base", <<0, Units(1), 0>>,
                         <<Units(16), Units(2), Units(16)>>)
                   EXCEPT !.children =
                     << BoxNode(9, "box_top", <<0, Units(2), 0>>,
                                <<Units(4), Units(2), Units(4)>>) >>] >>
        ELSE <<>>)

InputTrees ==
    { InputTree(n1, n2, n3, p3, rootBox) :
        n1 \in GroupNames, n2 \in GroupNames, n3 \in GroupNames,
        p3 \in { <<Units(-4), Units(12), 0>>, <<0, Units(24), 0>> },
        rootBox \in BOOLEAN }
    \cup { NestedTree(n1, deep, rootBox) :
             n1 \in GroupNames, deep \in BOOLEAN, rootBox \in BOOLEAN }

ImportInit ==
    /\ output \in { [nodes |-> t, counter |-> 0, overflow |-> FALSE] : t \in InputTrees }
    /\ model = [type |-> "ENTITY",
                texture_size |-> <<MIN_TEXTURE_SIZE, MIN_TEXTURE_SIZE>>,
                bones |-> <<>>]
    /\ textureDensity = "16x"
    /\ uvScaleFactor = <<1, 1>>
    /\ textureData = Null
    /\ phase = "exported"
    /\ source = Null
    /\ AppIdle

\* the imported model is exported again; a model in which bones share a name
\* grows with every round, so models of more than MaxBones + 1 bones are not
\* taken further
ImportExport ==
    /\ Len(model.bones) <= MaxBones + 1
    /\ ConvExport

ImportNext == ImportExport \/ ConvImport

ImportSpec == ImportInit /\ [][ImportNext]_vars

\* the nodes that are materialized as bones, in the order of the traversal:
\* every node but the boxes and attachment markers that have a parent
RECURSIVE BoneNodesOf(_, _)
BoneNodesOf(nodes, hasParent) ==
    IF nodes = <<>> THEN <<>>
    ELSE LET n == Head(nodes)
         IN  (IF hasParent /\ (n.shape.type = "box" \/ n.shape.isPiece)
              THEN <<>>
              ELSE <<n>> \o BoneNodesOf(n.children, TRUE))
             \o BoneNodesOf(Tail(nodes), hasParent)

\* the box children and the attachment marker children of a node
BoxChildren(n) == SelectSeq(n.children, LAMBDA c : c.shape.type = "box")
PieceChildren(n) ==
    SelectSeq(n.children, LAMBDA c : c.shape.type # "box" /\ c.shape.isPiece)

\* the bone holds the cubes of the node's own box children (after the node's
\* own box, for a top-level box) and the attachments of its own markers, with
\* their positions as they are
HoldsOwnChildren(bone, n) ==
    LET own == IF n.shape.type = "box" THEN 1 ELSE 0
        boxes == BoxChildren(n)
        pieces == PieceChildren(n)
    IN  /\ bone.name = n.name
        /\ Len(bone.cubes) = own + Len(boxes)
        /\ \A c \in 1..Len(boxes) : bone.cubes[own + c].size = boxes[c].shape.size
        /\ Len(bone.attachments) = Len(pieces)
        /\ \A a \in 1..Len(pieces) :
              /\ bone.attachments[a].name = pieces[a].name
              /\ bone.attachments[a].position = pieces[a].position

\* C20: in convertHytaleToBedrock every box node that has a parent becomes a
\* cube of the bone materialized from its nearest ancestor node, and every
\* isPiece node an attachment of that bone with its position as it is, also
\* when several nodes of the tree carry the same name.
C20_NearestAncestor ==
    phase = "imported" =>
        LET made == BoneNodesOf(output.nodes, FALSE)
        IN  /\ Len(model.bones) = Len(made)
            /\ \A i \in 1..Len(made) : HoldsOwnChildren(model.bones[i], made[i])

\* the same for the files whose bone nodes all have different names
C20_NearestAncestorUniqueNames ==
    phase = "imported" =>
        LET made == BoneNodesOf(output.nodes, FALSE)
        IN  (\A i, j \in 1..Len(made) : made[i].name = made[j].name => i = j)
               => /\ Len(model.bones) = Len(made)
                  /\ \A i \in 1..Len(made) :
                        HoldsOwnChildren(model.bones[i], made[i])

\* an imported file with three differently named groups, and one with two
\* groups of one name whose second bone came out empty
C20_WitnessUniqueNames ==
    /\ phase = "imported"
    /\ source = Null
    /\ Len(model.bones) = 4
    /\ \A i, j \in 1..4 : model.bones[i].name = model.bones[j].name => i = j
    /\ Len(model.bones[3].cubes) = 1 /\ Len(model.bones[3].attachments) = 1

C20_WitnessSharedName ==
    /\ phase = "imported"
    /\ source = Null
    /\ model.bones[1].name = model.bones[3].name
    /\ Len(model.bones[1].cubes) = 2
    /\ model.bones[3].cubes = <<>>

\* the number of nodes of a node list, at every depth
RECURSIVE NodeCount(_), NodeCountRange(_, _, _)
NodeCountRange(nodes, lo, hi) ==
    IF lo > hi THEN 0
    ELSE IF lo = hi THEN 1 + NodeCount(nodes[lo].children)
    ELSE LET mid == (lo + hi) \div 2
         IN  NodeCountRange(nodes, lo, mid) + NodeCountRange(nodes, mid + 1, hi)

NodeCount(nodes) == NodeCountRange(nodes, 1, Len(nodes))

\* the number of bones, cubes and attachments of the first k bones; a bone
\* made from a top-level box (its own cube is the one without a pivot) and
\* that cube are one node's and count once
RECURSIVE MaterializedCount(_, _)
MaterializedCount(bones, k) ==
    IF k = 0 THEN 0
    ELSE Len(bones[k].cubes) + Len(bones[k].attachments)
            + (IF \E c \in 1..Len(bones[k].cubes) : bones[k].cubes[c].pivot = NoPivot
               THEN 0 ELSE 1)
            + MaterializedCount(bones, k - 1)

\* some box or attachment marker that has a parent has children of its own
RECURSIVE HasDroppedChildren(_, _)
HasDroppedChildren(nodes, hasParent) ==
    /\ nodes # <<>>
    /\ LET n == Head(nodes)
       IN  \/ /\ hasParent
              /\ n.shape.type = "box" \/ n.shape.isPiece
              /\ n.children # <<>>
           \/ HasDroppedChildren(n.children, TRUE)
           \/ HasDroppedChildren(Tail(nodes), hasParent)

\* C21: convertHytaleToBedrock converts completely or not at all: every node
\* of the input tree, at any depth, children of box nodes and of attachment
\* nodes included, is materialized as exactly one bone, one cube or one
\* attachment of the result (the import is never rejected by the code, so the
\* result has as many bones, cubes and attachments as the file has nodes; a
\* top-level box is one node that makes a bone and its own cube).
C21_EveryNodeMaterialized ==
    phase = "imported" =>
        MaterializedCount(model.bones, Len(model.bones)) = NodeCount(output.nodes)

\* what holds instead: nothing is lost unless a box or an attachment marker
\* under a parent has children, and then the result is smaller than the file
C21_LeafChildrenDropped ==
    phase = "imported" =>
        IF HasDroppedChildren(output.nodes, FALSE)
        THEN MaterializedCount(model.bones, Len(model.bones)) < NodeCount(output.nodes)
        ELSE MaterializedCount(model.bones, Len(model.bones)) = NodeCount(output.nodes)

\* the bones of m called name
BonesNamed(m, name) == { i \in 1..Len(m.bones) : m.bones[i].name = name }

\* the bone is the one a top-level box node n makes: named after it, without
\* parent, its pivot the node position, its first cube the node's own, of the
\* node's size around the node position, followed by the node's box children
IsRootBoxBone(bone, n) ==
    /\ bone.name = n.name
    /\ bone.parent = NoParent
    /\ bone.pivot = n.position
    /\ Len(bone.cubes) = 1 + Len(BoxChildren(n))
    /\ bone.cubes[1].size = n.shape.size
    /\ \A k \in 1..3 :
          2 * bone.cubes[1].origin[k] = 2 * n.position[k] - n.shape.size[k]

\* the bones of m made from a top-level box: the first cube is the node's own
RootBoxBones(m) ==
    { i \in 1..Len(m.bones) :
        /\ m.bones[i].parent = NoParent
        /\ m.bones[i].cubes # <<>>
        /\ m.bones[i].cubes[1].pivot = NoPivot }

\* C22: a box node at the root of the imported tree is imported as a bone
\* named after the node, with no parent, pivot equal to the node position and
\* exactly one own cube of the node's size whose origin is the node position
\* minus size/2; exporting and importing that bone again keeps exactly one
\* cube with the same origin and size.
C22_RootBox ==
    /\ (phase = "imported" /\ source = Null) =>
          \A t \in 1..Len(output.nodes) :
              output.nodes[t].shape.type = "box" =>
                 \E i \in BonesNamed(model, output.nodes[t].name) :
                     /\ BonesNamed(model, output.nodes[t].name) = {i}
                     /\ IsRootBoxBone(model.bones[i], output.nodes[t])
    /\ (phase = "imported" /\ source # Null) =>
          \A i \in RootBoxBones(source) :
              \E j \in BonesNamed(model, source.bones[i].name) :
                  /\ BonesNamed(model, source.bones[i].name) = {j}
                  /\ model.bones[j].pivot = source.bones[i].pivot
                  /\ Len(model.bones[j].cubes) = Len(source.bones[i].cubes)
                  /\ Cardinality({ c \in 1..Len(model.bones[j].cubes) :
                         /\ model.bones[j].cubes[c].origin = source.bones[i].cubes[1].origin
                         /\ model.bones[j].cubes[c].size = source.bones[i].cubes[1].size })
                       = 1

\* the bone of the top-level box "base" with its one cube, imported, exported
\* and imported again
C22_Witness ==
    /\ phase = "imported"
    /\ source # Null
    /\ \E i \in RootBoxBones(source) :
          /\ source.bones[i].name = "base"
          /\ source.bones[i].pivot = <<0, 0, 0>>
          /\ source.bones[i].cubes[1].origin = <<Units(-8), Units(-1), Units(-8)>>
          /\ \E j \in BonesNamed(model, "base") :
                /\ Len(model.bones[j].cubes) = 1
                /\ model.bones[j].cubes[1].origin = <<Units(-8), Units(-1), Units(-8)>>
                /\ model.bones[j].cubes[1].size = <<Units(16), Units(2), Units(16)>>

--------------------------------------------------------------------------
(* Properties of the App handlers, checked under Spec *)

\* C23: after handleDeleteBone removes a bone of a well-formed model, the
\* bones still form a forest with well-formed references: no remaining bone
\* has a parent that names a bone absent from the model, and every remaining
\* bone is still reachable by the export traversal.
C23_DeleteKeepsForest ==
    [][(DeleteBone /\ OffendingBones(model) = {}) => OffendingBones(model') = {}]_vars

\* what holds instead: the references stay well-formed when the removed bone
\* is no bone's parent (or the index removes nothing)
C23_DeleteLeafKeepsForest ==
    [][\A index \in 0..Len(model.bones) :
          (/\ DeleteBone
           /\ OffendingBones(model) = {}
           /\ model'.bones = RemoveAt(model.bones, index + 1)
           /\ index < Len(model.bones) =>
                 \A b \in 1..Len(model.bones) :
                     model.bones[b].parent # model.bones[index + 1].name)
          => OffendingBones(model') = {}]_vars

--------------------------------------------------------------------------
(* The scenario of the single cube, checked under LibSpec *)

\* the model is the single cube origin [-4,0,-4], size [8,8,8] packed at
\* density 1x: footprint (32,16), atlas 64x64, uv origin (0,0)
SingleCubeDrawn ==
    /\ phase = "drawn"
    /\ textureDensity = "16x"
    /\ CubeIds(model) = {<<1, 1>>}
    /\ model.bones[1].cubes[1].origin = <<Units(-4), 0, Units(-4)>>
    /\ model.bones[1].cubes[1].size = <<Units(8), Units(8), Units(8)>>
    /\ model.bones[1].cubes[1].uv = <<0, 0>>
    /\ model.texture_size = <<64, 64>>
    /\ FootW(model.bones[1].cubes[1], 1) = 32
    /\ FootH(model.bones[1].cubes[1], 1) = 16

\* the rectangle drawn for a face of the single cube
DrawnFace(face) ==
    CHOOSE r \in { output[1].rects[i] : i \in 1..Len(output[1].rects) } : r.face = face

\* C24 as stated: for the single cube origin [-4,0,-4], size [8,8,8] packed at
\* density 1x the top face rectangle drawn by drawTextureLayout is
\* (x, y, w, h) = (12, 0, 8, 8).
C24_TopFaceAtTwelve ==
    SingleCubeDrawn => DrawnFace("top") = Rect("top", 12, 0, 8, 8)

\* C24 amended: the top face rectangle is (8, 0, 8, 8), at (u + depth, v)
\* with the size width x depth; the rectangle of the bottom face begins at
\* x = 16 and that of the front face at (8, 8).
C24_TopFaceAtEight ==
    SingleCubeDrawn =>
        /\ Len(output) = 1
        /\ DrawnFace("top") = Rect("top", 8, 0, 8, 8)
        /\ DrawnFace("bottom") = Rect("bottom", 16, 0, 8, 8)
        /\ DrawnFace("front") = Rect("front", 8, 8, 8, 8)

\* the layout of the single cube has been drawn
C24_Witness ==
    /\ SingleCubeDrawn
    /\ Len(output) = 1
    /\ Len(output[1].rects) = 6

--------------------------------------------------------------------------
(* The export specification: the Sidebar's handleExportHytale on models      *)
(* around the node limit.                                                   *)

\* const isOverLimit = totalNodes > 255
NodeLimit == 255

\* the Sidebar's stats: bones = bones.length, cubes = the sum of the bones'
\* cubes.length, totalNodes = bones + cubes
RECURSIVE CountCubes(_, _)
CountCubes(bones, k) ==
    IF k = 0 THEN 0 ELSE Len(bones[k].cubes) + CountCubes(bones, k - 1)

StatsTotalNodes(m) == Len(m.bones) + CountCubes(m.bones, Len(m.bones))

StatsIsOverLimit(m) == StatsTotalNodes(m) > NodeLimit

\* a root bone with nC cubes and nA attachments and, with child, a bone
\* "post" under it that has one cube
ExportModel(nC, nA, child) ==
    [type |-> "ENTITY",
     texture_size |-> <<MIN_TEXTURE_SIZE, MIN_TEXTURE_SIZE>>,
     bones |-> << NewBone("root", NoParent, <<0, 0, 0>>,
                    [i \in 1..nC |-> NewCube(<<Units(2), Units(2), Units(2)>>)],
                    [i \in 1..nA |-> Attachment("slot")]) >>
               \o (IF child
                   THEN << NewBone("post", "root", <<0, Units(4), 0>>,
                             << NewCube(<<Units(2), Units(2), Units(2)>>) >>, <<>>) >>
                   ELSE <<>>)]

\* the numbers of cubes and of attachments of the inputs, about the limit
ExportModels ==
    { ExportModel(nC, nA, child) :
        nC \in (NodeLimit - 5)..(NodeLimit + 1), nA \in 0..6, child \in BOOLEAN }

ExportInit ==
    /\ model \in ExportModels
    /\ textureDensity = "16x"
    /\ uvScaleFactor = <<1, 1>>
    /\ textureData = Null
    /\ phase = "input"
    /\ source = Null
    /\ output = Null
    /\ AppIdle

\* handleExportHytale: over the limit the user is asked (confirm) and the
\* export is abandoned on "no"; otherwise exportHytaleModel runs unasked
handleExportHytale ==
    /\ phase = "input"
    /\ \E answer \in BOOLEAN :
          IF StatsIsOverLimit(model)
          THEN IF answer
               THEN /\ output' = exportHytaleModel(model)
                    /\ phase' = "exported after confirmation"
               ELSE /\ output' = Null
                    /\ phase' = "export declined"
          ELSE /\ output' = exportHytaleModel(model)
               /\ phase' = "exported"
    /\ source' = model
    /\ UNCHANGED <<model, textureDensity, uvScaleFactor, textureData, appVars>>

ExportSpec == ExportInit /\ [][handleExportHytale]_vars

\* C25: handleExportHytale starts an export without asking the user for
\* confirmation only if the exported node tree (one node per bone, per cube
\* and per attachment) has at most 255 nodes.
C25_UnaskedExportWithinLimit ==
    phase = "exported" => NodeCount(output.nodes) <= NodeLimit

\* what holds instead: an export is unasked exactly when the bones and cubes
\* alone are at most 255, and the tree exported has the attachments' nodes too
C25_LimitIgnoresAttachments ==
    /\ phase = "exported" =>
          /\ StatsTotalNodes(model) <= NodeLimit
          /\ NodeCount(output.nodes)
                = StatsTotalNodes(model) + Len(model.bones[1].attachments)
    /\ phase \in {"exported after confirmation", "export declined"} =>
          StatsTotalNodes(model) > NodeLimit

--------------------------------------------------------------------------
(* Properties of the App's waiting handlers, checked under Spec *)

\* the bones of a model without the texture offsets of their cubes
Geometry(m) ==
    [b \in 1..Len(m.bones) |->
        [m.bones[b] EXCEPT !.cubes =
            [c \in 1..Len(m.bones[b].cubes) |->
                [m.bones[b].cubes[c] EXCEPT !.uv = NoUV]]]]

\* C26: a texture completion (the img.onload callback of handleGenerateTexture
\* or handleUploadTexture calling setModel) never replaces a model that was
\* changed by another operation after the texture request started: the model
\* it installs is derived from the model current at completion time (its bones,
\* cubes and attachments are the current ones, with new texture offsets).
C26_TextureKeepsEdits ==
    [][(GenerateTextureLoad \/ UploadTextureLoad)
          => Geometry(model') = Geometry(model)]_vars

\* what holds instead: the model installed has the bones of the model that
\* was current when the request started
C26_TextureInstallsCaptured ==
    [][(GenerateTextureLoad \/ UploadTextureLoad)
          => \E i \in 1..Len(requests) :
                /\ requests[i].kind \in {"textureImage", "upload"}
                /\ Geometry(model') = Geometry(requests[i].captured)]_vars

\* the model-generation requests in flight: handleGenerate and handleAutoRig
\* calls that are waiting
GenerationRequests ==
    { i \in 1..Len(requests) : requests[i].kind \in {"generate", "autorig"} }

\* C27: isGenerating is true in every state in which at least one
\* model-generation request is in flight, and at most one such request is in
\* flight at any time; isGenerating becomes false only when no request remains
\* in flight.
C27_IsGeneratingTracksRequests ==
    /\ GenerationRequests # {} => isGenerating
    /\ Cardinality(GenerationRequests) <= 1

\* what holds instead: isGenerating is true only while a request is in
\* flight, and every start sets it
C27_IsGeneratingOnlyInFlight ==
    /\ [](isGenerating => GenerationRequests # {})
    /\ [][(GenerateStart \/ AutoRigStart) => isGenerating']_vars

--------------------------------------------------------------------------
(* The Sidebar specification: the bone list, the delete button and the       *)
(* attachment editor of the selected bone.  The Sidebar's state               *)
(* selectedBoneIndex is kept in the variable output.                         *)

\* useState<number | null>(null): null is written -1
NoSelection == -1

selectedBoneIndex == output

\* const selectedBone = selectedBoneIndex !== null && model.bedrockData ?
\*     model.bedrockData.bones[selectedBoneIndex] : null
\* the editor with its buttons is rendered only when selectedBone is a bone
HasSelectedBone ==
    selectedBoneIndex # NoSelection /\ selectedBoneIndex < Len(model.bones)

\* the names the attachment editor's select offers (two of them) and the
\* values typed into its fields
AttachmentNames == {"hand_right", "head_top"}
TypedNames == {"custom"}
TypedNumbers == {Units(1)}

SidebarInit ==
    /\ model \in {INITIAL_MODEL} \cup GeneratedModels
    /\ output = NoSelection
    /\ textureDensity = "16x"
    /\ uvScaleFactor = <<1, 1>>
    /\ textureData = Null
    /\ phase = "sidebar"
    /\ source = Null
    /\ AppIdle

\* onClick={() => setSelectedBoneIndex(idx)} on a row of the bone list
SelectBone ==
    /\ \E idx \in 0..(Len(model.bones) - 1) : output' = idx
    /\ UNCHANGED <<model, textureDensity, uvScaleFactor, textureData, phase,
                   source, appVars>>

\* onClick={() => onDeleteBone(selectedBoneIndex!)}: handleDeleteBone splices
\* the bone out; selectedBoneIndex is not written
DeleteSelectedBone ==
    /\ HasSelectedBone
    /\ operations < MaxOperations
    /\ model' = [model EXCEPT !.bones = RemoveAt(model.bones, selectedBoneIndex + 1)]
    /\ operations' = operations + 1
    /\ UNCHANGED <<output, textureDensity, uvScaleFactor, textureData, phase,
                   source, requests, isGenerating, isGeneratingTexture>>

\* the attachments of a bone as objects: legacy strings become
\* { name: s, position: [0,0,0] }
CurrentAtts(bone) ==
    IF bone.attachments # <<>> /\ bone.attachments[1].kind = "string"
    THEN [a \in 1..Len(bone.attachments) |-> Attachment(bone.attachments[a].name)]
    ELSE bone.attachments

\* handleAddAttachment
handleAddAttachment ==
    /\ HasSelectedBone
    /\ operations < MaxOperations
    /\ \E newAttachmentName \in AttachmentNames :
          model' = [model EXCEPT !.bones[selectedBoneIndex + 1].attachments =
                      Append(CurrentAtts(model.bones[selectedBoneIndex + 1]),
                             Attachment(newAttachmentName))]
    /\ operations' = operations + 1
    /\ UNCHANGED <<output, textureDensity, uvScaleFactor, textureData, phase,
                   source, requests, isGenerating, isGeneratingTexture>>

\* handleUpdateAttachment(attIndex, field, value) from a field of a rendered
\* attachment
handleUpdateAttachment ==
    /\ HasSelectedBone
    /\ operations < MaxOperations
    /\ \E attIndex \in 1..Len(model.bones[selectedBoneIndex + 1].attachments) :
          LET att == model.bones[selectedBoneIndex + 1].attachments[attIndex]
          IN  /\ att.kind = "object"
              /\ \/ \E value \in TypedNames :
                       model' = [model EXCEPT
                           !.bones[selectedBoneIndex + 1].attachments[attIndex].name
                               = value]
                 \/ \E k \in 1..3, value \in TypedNumbers :
                       model' = [model EXCEPT
                           !.bones[selectedBoneIndex + 1].attachments[attIndex].position[k]
                               = value]
    /\ operations' = operations + 1
    /\ UNCHANGED <<output, textureDensity, uvScaleFactor, textureData, phase,
                   source, requests, isGenerating, isGeneratingTexture>>

\* handleRemoveAttachment(attIndex)
handleRemoveAttachment ==
    /\ HasSelectedBone
    /\ operations < MaxOperations
    /\ \E attIndex \in 1..Len(model.bones[selectedBoneIndex + 1].attachments) :
          model' = [model EXCEPT !.bones[selectedBoneIndex + 1].attachments =
                      RemoveAt(@, attIndex)]
    /\ operations' = operations + 1
    /\ UNCHANGED <<output, textureDensity, uvScaleFactor, textureData, phase,
                   source, requests, isGenerating, isGeneratingTexture>>

SidebarNext ==
    \/ SelectBone
    \/ DeleteSelectedBone
    \/ handleAddAttachment
    \/ handleUpdateAttachment
    \/ handleRemoveAttachment

SidebarSpec == SidebarInit /\ [][SidebarNext]_vars

\* the names, pivots and cubes of the bones
BoneEntries(m) ==
    [b \in 1..Len(m.bones) |->
        <<m.bones[b].name, m.bones[b].pivot, m.bones[b].cubes>>]

\* C28: after any sequence of select-bone, delete-bone, add-attachment,
\* update-attachment and remove-attachment operations in the Sidebar,
\* selectedBoneIndex is null or a valid index into model.bedrockData.bones, and
\* every element of bones still has a name, a pivot and a cubes list (no
\* attachment edit creates or writes a bone entry that did not exist).
C28_SelectionValid ==
    /\ [](selectedBoneIndex = NoSelection
            \/ selectedBoneIndex \in 0..(Len(model.bones) - 1))
    /\ [][(handleAddAttachment \/ handleUpdateAttachment \/ handleRemoveAttachment)
            => BoneEntries(model') = BoneEntries(model)]_vars

\* what holds instead: the selection is null or at most the number of bones,
\* beyond the last bone only after a deletion; attachment edits leave the
\* bones' names, pivots and cubes as they are
C28_SelectionAtMostLength ==
    /\ [](selectedBoneIndex = NoSelection
            \/ selectedBoneIndex \in 0..Len(model.bones))
    /\ [][(~DeleteSelectedBone /\ selectedBoneIndex' # NoSelection)
            => selectedBoneIndex' \in 0..(Len(model'.bones) - 1)]_vars
    /\ [][(handleAddAttachment \/ handleUpdateAttachment \/ handleRemoveAttachment)
            => BoneEntries(model') = BoneEntries(model)]_vars

--------------------------------------------------------------------------
(* The shape of the exported tree, checked under ConvSpec *)

\* the bones of m whose parent is called name, in the order of the list
BonesUnder(m, name) == SelectSeq(m.bones, LAMBDA b : b.parent = name)

\* node is shaped as the node of the bone: its children are one box per cube,
\* then one attachment marker per attachment, then one group per child bone,
\* each in the order of the model
IsShapedAsBone(m, node, bone) ==
    LET nC == Len(bone.cubes)
        nA == Len(bone.attachments)
        sub == BonesUnder(m, bone.name)
    IN  /\ node.shape.type = "none" /\ ~node.shape.isPiece
        /\ Len(node.children) = nC + nA + Len(sub)
        /\ \A c \in 1..nC :
              /\ node.children[c].shape.type = "box"
              /\ node.children[c].shape.size = bone.cubes[c].size
              /\ node.children[c].children = <<>>
        /\ \A a \in 1..nA :
              /\ node.children[nC + a].shape.type = "none"
              /\ node.children[nC + a].shape.isPiece
              /\ node.children[nC + a].children = <<>>
        /\ \A k \in 1..Len(sub) :
              /\ node.children[nC + nA + k].name = sub[k].name
              /\ node.children[nC + nA + k].shape.type = "none"
              /\ ~node.children[nC + nA + k].shape.isPiece

\* the number of attachments of the first k bones
RECURSIVE CountAttachments(_, _)
CountAttachments(bones, k) ==
    IF k = 0 THEN 0
    ELSE Len(bones[k].attachments) + CountAttachments(bones, k - 1)

\* the model has non-empty bone names, all different, and every parent chain
\* ends at a root
WellFormedForest(m) ==
    /\ UniqueBoneNames(m)
    /\ \A b \in 1..Len(m.bones) : m.bones[b].name # ""
    /\ OffendingBones(m) = {}

\* C29: for a model with unique non-empty bone names and a well-formed acyclic
\* parent forest, the tree built by buildHytaleNodeTree has exactly one node
\* per bone nested under its parent bone's node, exactly one box child per cube
\* and one isPiece child per attachment under the owning bone's node (children
\* ordered cubes, then attachments, then child bones), and all node ids within
\* one exportHytaleModel call are distinct.
C29_TreeShape ==
    (phase = "exported" /\ WellFormedForest(source)) =>
        LET entries == NodeEntries(output.nodes, NoParent)
            groups == { e \in entries :
                          e.node.shape.type = "none" /\ ~e.node.shape.isPiece }
        IN  /\ ~output.overflow
            /\ Cardinality(groups) = Len(source.bones)
            /\ \A b \in 1..Len(source.bones) :
                  \E e \in groups :
                      /\ e.node.name = source.bones[b].name
                      /\ \A f \in groups : f.node.name = e.node.name => f = e
                      /\ e.parent = source.bones[b].parent
                      /\ IsShapedAsBone(source, e.node, source.bones[b])
            /\ NodeCount(output.nodes)
                  = Len(source.bones) + CountCubes(source.bones, Len(source.bones))
                      + CountAttachments(source.bones, Len(source.bones))
            /\ Cardinality({ e.node.id : e \in entries }) = NodeCount(output.nodes)
            /\ Cardinality(entries) = NodeCount(output.nodes)

\* an exported forest of three bones, one bone with two children listed after
\* it, with two cubes and two attachments on a child
C29_Witness ==
    /\ phase = "exported"
    /\ WellFormedForest(source)
    /\ Len(source.bones) = 3
    /\ \E i \in 1..3 :
          /\ Len(BonesUnder(source, source.bones[i].name)) = 2
          /\ \E j \in 1..3 :
                /\ source.bones[j].parent = source.bones[i].name
                /\ Len(source.bones[j].cubes) = 2
                /\ Len(source.bones[j].attachments) = 2
    /\ NodeCount(output.nodes) >= 8

--------------------------------------------------------------------------
(* The termination specification: buildHytaleNodeTree on any list of bones,  *)
(* names shared or empty, parents naming any bone, the bone itself or none.  *)

\* the names of the bones of the inputs; "" is the empty string
AnyNames == {"", "arm", "leg"}

\* the parents of the bones of the inputs; NoParent is no parent
AnyParents == {NoParent, "arm", "leg"}

AnyBoneList(n, names, parents) ==
    [type |-> "ENTITY",
     texture_size |-> <<MIN_TEXTURE_SIZE, MIN_TEXTURE_SIZE>>,
     bones |-> [i \in 1..n |->
                  NewBone(names[i], parents[i], PivotOf(i),
                          << Cube(<<Units(-4), 0, Units(-4)>>,
                                  <<Units(8), Units(8), Units(8)>>) >>,
                          <<>>)]]

AnyBoneLists ==
    UNION { { AnyBoneList(n, names, parents) :
                names \in [1..n -> AnyNames], parents \in [1..n -> AnyParents] } :
            n \in 0..MaxBones }

TerminationInit ==
    /\ model \in AnyBoneLists
    /\ textureDensity = "16x"
    /\ uvScaleFactor = <<1, 1>>
    /\ textureData = Null
    /\ phase = "input"
    /\ source = Null
    /\ output = Null
    /\ AppIdle

\* one export of the list
TerminationExport ==
    /\ phase = "input"
    /\ ConvExport

TerminationSpec == TerminationInit /\ [][TerminationExport]_vars

\* C30: buildHytaleNodeTree terminates for every finite list of bones,
\* including lists with duplicate bone names, a bone whose name is the empty
\* string, a bone that names itself as parent, and cyclic parent references
\* (the call returns a tree; it does not recurse until the stack overflows).
C30_Terminates ==
    phase = "exported" => ~output.overflow

\* what holds instead: the call returns for every list whose bone names are
\* non-empty and all different, whatever the parents; and a root whose name is
\* empty is enough for it not to return
C30_TerminatesOnUniqueNames ==
    phase = "exported" =>
        /\ (UniqueBoneNames(source)
               /\ \A b \in 1..Len(source.bones) : source.bones[b].name # "")
              => ~output.overflow
        /\ (\E b \in 1..Len(source.bones) :
                source.bones[b].name = "" /\ source.bones[b].parent = NoParent)
              => output.overflow

====
